---- MODULE Spec2Model ----
(***************************************************************************)
(* Claim lifecycle and verification engine of Qreclaim: the validation     *)
(* pipeline and session lock of start_claim, the claim state machine       *)
(* (admin approve/reject, student cancel, sweeper), QR token issuance and  *)
(* verification with the claim-read cache, and kiosk finalization.         *)
(*                                                                         *)
(* Every request handler is a sequence of steps of a call slot p; one step *)
(* holds at most one access to the record store or to the in-process maps, *)
(* so that handlers interleave the way concurrent requests do.             *)
(* Time is in seconds.                                                     *)
(***************************************************************************)
EXTENDS Integers, Sequences, FiniteSets, TLC

\* ------------------------------------------------------------------ bounds
NumProcs == 3
MaxCalls == 4
MaxTicks == 3
MaxTokens == 2
SeqCalls == 1

\* ------------------------------------------------------- program constants
MAX_CONCURRENT_CLAIMS_PER_USER == 1
RATE_LIMIT_WINDOW_SECONDS == 60
MAX_REQUESTS_PER_WINDOW == 10
CLAIM_SESSION_LOCK_DURATION_MINUTES == 30
CLAIM_CACHE_TTL_SECONDS == 30
QR_EXPIRY_MINUTES == 5
MAX_DURATION_SEC == 3600
DEFAULT_DURATION_SEC == 10
APPROVAL_EXPIRATION_HOURS == 24

\* ------------------------------------------------------------ the universe
Procs == 1..NumProcs
ClaimIds == 1..MaxCalls
Students == {"s1", "s2"}
Admins == {"a1"}
Items == {"i1", "i2", "i3", "i4"}
Lockers == {"L1"}
NoTime == -1
NoId == 0
None == "none"

\* found_items fields that no modelled operation writes: is_valuable, locker_id
is_valuable(i) == i \in {"i2", "i3"}
locker_id(i) == IF i = "i1" THEN "L1" ELSE None

NoClaim ==
  [exists |-> FALSE, found_item_id |-> None, student_id |-> None,
   face_embedding |-> FALSE, verification_method |-> None, status |-> None,
   qr_token |-> NoId, expires_at |-> NoTime, approved_by |-> None,
   approved_at |-> NoTime, created_at |-> 0]

NoCache == [hit |-> FALSE, doc |-> NoClaim, ts |-> NoTime]

\* a locker that is not open, with the status st
ClosedLocker(st) ==
  [status |-> st, open_started_at |-> NoTime, auto_close_at |-> NoTime]

\* a locker opened at time t for d seconds
OpenLocker(t, d) ==
  [status |-> "open", open_started_at |-> t, auto_close_at |-> t + d]

NoRet ==
  [ok |-> FALSE, code |-> None, claim_id |-> NoId, layers |-> <<>>, body |-> None]

NoLoc ==
  [u |-> None, i |-> None, c |-> NoId, d |-> 0, lk |-> FALSE, n |-> NoId,
   cdata |-> NoClaim, tok |-> NoId, ids |-> {}, t |-> NoTime, adm |-> None,
   code |-> None, layers |-> <<>>, dry |-> FALSE, l |-> None, envelope |-> <<>>,
   a |-> <<>>, b |-> <<>>]

VARIABLES
  now,                  \* wall clock
  found_items,          \* collection found_items: status, claimed_by, approval
  lockers,              \* collection lockers: status, open_started_at, auto_close_at
  claims,               \* collection claims, by claim id number
  users,                \* collection users: account status
  CLAIM_CACHE,          \* claim_service._CLAIM_CACHE
  claim_session_locks,  \* claim_validation_service._claim_session_locks
  rate_limit_cache,     \* claim_validation_service._rate_limit_cache
  ALLOW_QR_TOKEN_FALLBACK, \* environment toggle read by verify_claim_qr_data
  QRECLAIM_FERNET_KEYS,    \* environment: the key map, key by version name
  QRECLAIM_FERNET_ACTIVE,  \* environment: the active version name, or empty
  qr_codes,                \* the envelopes encryption has produced
  created_seq,          \* order of the created_at timestamps handed out
  next_token,           \* number of tokens drawn so far
  calls,                \* number of start_claim calls begun
  verified,             \* history: claims for which verify-token returned valid
  pc, loc, ret          \* per call slot: position, locals, last response

vars == <<now, found_items, lockers, claims, users, CLAIM_CACHE,
          claim_session_locks, rate_limit_cache, ALLOW_QR_TOKEN_FALLBACK,
          QRECLAIM_FERNET_KEYS, QRECLAIM_FERNET_ACTIVE, qr_codes,
          created_seq, next_token, calls, verified, pc, loc, ret>>

store == <<found_items, lockers, claims, users>>
memory == <<CLAIM_CACHE, claim_session_locks, rate_limit_cache>>
environ ==
  <<ALLOW_QR_TOKEN_FALLBACK, QRECLAIM_FERNET_KEYS, QRECLAIM_FERNET_ACTIVE, qr_codes>>
ghost == <<created_seq, next_token, calls, verified>>

\* ---------------------------------------------------------------- helpers
ExistingIds == {c \in ClaimIds : claims[c].exists}

Max(S) == CHOOSE x \in S : \A y \in S : y <= x
Min(S) == CHOOSE x \in S : \A y \in S : x <= y

Fail(code) == [NoRet EXCEPT !.code = code]
Ok(code, c) == [NoRet EXCEPT !.ok = TRUE, !.code = code, !.claim_id = c]

\* a result of the validation pipeline carries validation_results.layers_passed
FailAt(code, layers) == [Fail(code) EXCEPT !.layers = layers]
OkAt(code, layers) == [Ok(code, NoId) EXCEPT !.layers = layers]

\* a handler returns: the response is kept, the locals are dropped
Return(p, r) ==
  /\ pc' = [pc EXCEPT ![p] = "done"]
  /\ ret' = [ret EXCEPT ![p] = r]
  /\ loc' = [loc EXCEPT ![p] = NoLoc]

Goto(p, label) == pc' = [pc EXCEPT ![p] = label]

Free(p) == pc[p] \in {"idle", "done"}

\* ------------------------------------------------------------- initial state
\* the state after construction, over a store holding the items fi, the claims
\* cl and the accounts us, with the environment toggle fb, at clock value t
InitWith(fi, cl, us, fb, t, ls, rl) ==
  /\ now = t
  /\ found_items = fi
  /\ lockers = ls
  /\ claims = cl
  /\ users = us
  /\ CLAIM_CACHE = [c \in ClaimIds |-> NoCache]
  /\ claim_session_locks = [s \in Students |-> NoTime]
  /\ rate_limit_cache = rl
  /\ ALLOW_QR_TOKEN_FALLBACK = fb
  /\ QRECLAIM_FERNET_KEYS = [v \in {<<"v", "1">>} |-> "k1"]
  /\ QRECLAIM_FERNET_ACTIVE = <<"v", "1">>
  /\ qr_codes = {}
  /\ created_seq = Cardinality({c \in ClaimIds : cl[c].exists})
  /\ next_token = 0
  /\ calls = 0
  /\ verified = {}
  /\ pc = [p \in Procs |-> "idle"]
  /\ loc = [p \in Procs |-> NoLoc]
  /\ ret = [p \in Procs |-> NoRet]

\* the same with every locker occupied and an empty rate limiter
InitStoreWith(fi, cl, us, fb, t) ==
  InitWith(fi, cl, us, fb, t, [l \in Lockers |-> ClosedLocker("occupied")],
           [s \in Students |-> <<>>])

\* the same over a store without claims
InitStore(fi, us, fb, t) == InitStoreWith(fi, [c \in ClaimIds |-> NoClaim], us, fb, t)

\* every item unclaimed, every account active, the toggle unset
FreshItems ==
  [i \in Items |-> [status |-> "unclaimed", claimed_by |-> None,
                    approved_by |-> None, approved_at |-> NoTime]]
ActiveUsers == [s \in Students \cup Admins |-> "active"]

Init == InitStore(FreshItems, ActiveUsers, FALSE, 0)

\* ------------------------------------------------ session lock, rate limiter
\* _acquire_claim_session_lock: the map after the call, and whether it succeeded
LockHeld(locks, u, t) ==
  /\ locks[u] # NoTime
  /\ t - locks[u] < CLAIM_SESSION_LOCK_DURATION_MINUTES * 60

\* variant: the lock is taken without looking at the recorded lock
acquire_claim_session_lock_unchecked(locks, u, t) ==
  [ok |-> TRUE, locks |-> [locks EXCEPT ![u] = t]]

acquire_claim_session_lock(locks, u, t) ==
  IF LockHeld(locks, u, t)
  THEN [ok |-> FALSE, locks |-> locks]
  ELSE [ok |-> TRUE, locks |-> [locks EXCEPT ![u] = t]]

\* variant: the release leaves the recorded lock in place
release_claim_session_lock_kept(locks, u) == locks

release_claim_session_lock(locks, u) == [locks EXCEPT ![u] = NoTime]

\* _check_rate_limit: prune, compare with the ceiling, append
Prune(ts, t) == SelectSeq(ts, LAMBDA x : x > t - RATE_LIMIT_WINDOW_SECONDS)

check_rate_limit(cache, u, t) ==
  LET kept == Prune(cache[u], t) IN
  IF Len(kept) >= MAX_REQUESTS_PER_WINDOW
  THEN [ok |-> FALSE, cache |-> [cache EXCEPT ![u] = kept]]
  ELSE [ok |-> TRUE, cache |-> [cache EXCEPT ![u] = Append(kept, t)]]

\* ------------------------------------------------------ claim-query helpers
\* the claims of a student; of a student for an item
ClaimsOfStudent(u) == {c \in ExistingIds : claims[c].student_id = u}

ClaimsOf(u, i) ==
  {c \in ExistingIds : claims[c].student_id = u /\ claims[c].found_item_id = i}

TokenLive(doc, t) ==
  doc.qr_token # NoId /\ doc.expires_at # NoTime /\ t < doc.expires_at

\* the loop of _validate_user_claim_eligibility over the user's claims for the
\* item, in document order: the first claim that decides the outcome wins.
\* The ValidationError ACTIVE_QR_EXISTS is raised inside "try: ... except
\* Exception: pass" (lines 272-281), so it is swallowed and the loop goes on.
RECURSIVE EligibilityScan(_, _)
EligibilityScan(S, t) ==
  IF S = {} THEN "continue"
  ELSE LET c == Min(S) IN
       IF claims[c].status = "pending" THEN "DUPLICATE_PENDING_CLAIM"
       ELSE IF claims[c].status = "approved" THEN "existing_approved_claim"
       ELSE EligibilityScan(S \ {c}, t)

PendingCount(u) ==
  Cardinality({c \in ExistingIds :
                 claims[c].student_id = u /\ claims[c].status = "pending"})

\* get_user_claim_status_for_item: the latest pending-like claim of the pair,
\* else the latest claim of the pair; NoId when the pair has no claim
Latest(S) == CHOOSE c \in S : \A e \in S : claims[e].created_at <= claims[c].created_at

get_user_claim_status_for_item(u, i) ==
  LET docs == ClaimsOf(u, i)
      pending_docs == {c \in docs : claims[c].status \in {"pending", "pending_approval"}}
  IN IF docs = {} THEN NoId
     ELSE IF pending_docs # {} THEN Latest(pending_docs)
     ELSE Latest(docs)

\* _generate_next_claim_id: one more than the highest claim id in the store
generate_next_claim_id == IF ExistingIds = {} THEN 1 ELSE Max(ExistingIds) + 1

\* a claim document that waits for an admin whatever the item
NewClaimDoc_always_pending(u, i, t, seq) ==
  [exists |-> TRUE, found_item_id |-> i, student_id |-> u,
   face_embedding |-> FALSE, verification_method |-> None,
   status |-> "pending", qr_token |-> NoId, expires_at |-> NoTime,
   approved_by |-> None, approved_at |-> NoTime, created_at |-> seq]

\* the claim document written by start_claim
NewClaimDoc(u, i, t, seq) ==
  [exists |-> TRUE, found_item_id |-> i, student_id |-> u,
   face_embedding |-> FALSE, verification_method |-> None,
   status |-> IF is_valuable(i) THEN "pending" ELSE "approved",
   qr_token |-> NoId, expires_at |-> NoTime,
   approved_by |-> IF is_valuable(i) THEN None ELSE "system_auto_approval",
   approved_at |-> IF is_valuable(i) THEN NoTime ELSE t,
   created_at |-> seq]

\* ------------------------------------------------------------- start_claim
StartClaimBegin(p, u, i) ==
  /\ Free(p)
  /\ calls < MaxCalls
  /\ calls' = calls + 1
  /\ pc' = [pc EXCEPT ![p] = "sc_item"]
  /\ loc' = [loc EXCEPT ![p] = [NoLoc EXCEPT !.u = u, !.i = i]]
  /\ ret' = [ret EXCEPT ![p] = NoRet]
  /\ UNCHANGED <<now, store, memory, environ, created_seq,
                 next_token, verified>>

\* the names appended to layers_passed, in the order of the pipeline
LayerNames ==
  <<"found_item_availability", "user_claim_eligibility", "valuable_item_handling",
    "claim_state_validation">>

\* variant: layer 1 passes without being recorded in layers_passed
PassItemLayer_unrecorded(p) ==
  /\ pc' = [pc EXCEPT ![p] = IF loc[p].dry THEN "sc_valuable" ELSE "sc_rate"]
  /\ UNCHANGED <<loc, ret>>

\* layer 1 has passed; a dry run records layer 2 as passed without running it
PassItemLayer(p) ==
  /\ pc' = [pc EXCEPT ![p] = IF loc[p].dry THEN "sc_valuable" ELSE "sc_rate"]
  /\ loc' = [loc EXCEPT ![p].layers =
                IF loc[p].dry THEN SubSeq(LayerNames, 1, 2) ELSE SubSeq(LayerNames, 1, 1)]
  /\ UNCHANGED ret

\* layer 1, _validate_found_item_availability: the read of the item
ValidateFoundItemAvailability(p) ==
  /\ pc[p] = "sc_item"
  /\ LET st == found_items[loc[p].i].status IN
     IF st = "missing" THEN Return(p, FailAt("ITEM_NOT_FOUND", loc[p].layers))
     ELSE IF st = "unclaimed" THEN PassItemLayer(p)
     ELSE IF st = "claimed" THEN Return(p, FailAt("ITEM_ALREADY_CLAIMED", loc[p].layers))
     ELSE IF st = "approved" THEN Goto(p, "sc_item_own") /\ UNCHANGED <<loc, ret>>
     ELSE IF st = "pending_verification"
          THEN Return(p, FailAt("ITEM_PENDING_VERIFICATION", loc[p].layers))
     ELSE Return(p, FailAt("ITEM_NOT_AVAILABLE", loc[p].layers))
  /\ UNCHANGED <<now, store, memory, environ, ghost>>

\* layer 1, item approved: the query of this user's approved claims of the item
CheckOwnApprovedClaim(p) ==
  /\ pc[p] = "sc_item_own"
  /\ IF \E c \in ClaimsOf(loc[p].u, loc[p].i) : claims[c].status = "approved"
     THEN PassItemLayer(p)
     ELSE Goto(p, "sc_item_other") /\ UNCHANGED <<loc, ret>>
  /\ UNCHANGED <<now, store, memory, environ, ghost>>

\* layer 1, item approved: the query of anyone's approved claims of the item;
\* when there is none the layer passes
CheckOtherApprovedClaim(p) ==
  /\ pc[p] = "sc_item_other"
  /\ IF \E c \in ExistingIds :
          claims[c].found_item_id = loc[p].i /\ claims[c].status = "approved"
     THEN Return(p, FailAt("ITEM_APPROVED_BY_OTHER_USER", loc[p].layers))
     ELSE PassItemLayer(p)
  /\ UNCHANGED <<now, store, memory, environ, ghost>>

\* layer 2, _check_rate_limit
CheckRateLimit(p) ==
  /\ pc[p] = "sc_rate"
  /\ LET r == check_rate_limit(rate_limit_cache, loc[p].u, now) IN
     /\ rate_limit_cache' = r.cache
     /\ IF r.ok THEN Goto(p, "sc_dup") /\ UNCHANGED <<loc, ret>>
        ELSE Return(p, FailAt("RATE_LIMIT_EXCEEDED", loc[p].layers))
  /\ UNCHANGED <<now, store, CLAIM_CACHE, claim_session_locks,
                 environ, ghost>>

\* _check_rate_limit statement by statement, as run by one request thread among
\* others: the clock read at entry (line 77)
RateLimitBegin(p, u) ==
  /\ Free(p)
  /\ calls < MaxCalls
  /\ calls' = calls + 1
  /\ pc' = [pc EXCEPT ![p] = "rl_prune"]
  /\ loc' = [loc EXCEPT ![p] = [NoLoc EXCEPT !.u = u, !.t = now]]
  /\ ret' = [ret EXCEPT ![p] = NoRet]
  /\ UNCHANGED <<now, store, memory, environ, created_seq,
                 next_token, verified>>

\* the list comprehension over the user's entry (lines 81-86); ids holds the
\* list built
RateLimitPrune(p) ==
  /\ pc[p] = "rl_prune"
  /\ pc' = [pc EXCEPT ![p] = "rl_store"]
  /\ loc' = [loc EXCEPT ![p].ids = Prune(rate_limit_cache[loc[p].u], loc[p].t)]
  /\ UNCHANGED <<now, store, memory, environ, ghost, ret>>

\* the assignment of the list built to the user's entry (line 82)
RateLimitStore(p) ==
  /\ pc[p] = "rl_store"
  /\ rate_limit_cache' = [rate_limit_cache EXCEPT ![loc[p].u] = loc[p].ids]
  /\ pc' = [pc EXCEPT ![p] = "rl_check"]
  /\ UNCHANGED <<now, store, CLAIM_CACHE, claim_session_locks,
                 environ, ghost, loc, ret>>

\* the length test (lines 89-90)
RateLimitCheck(p) ==
  /\ pc[p] = "rl_check"
  /\ IF Len(rate_limit_cache[loc[p].u]) >= MAX_REQUESTS_PER_WINDOW
     THEN Return(p, Fail("RATE_LIMIT_EXCEEDED"))
     ELSE Goto(p, "rl_append") /\ UNCHANGED <<loc, ret>>
  /\ UNCHANGED <<now, store, memory, environ, ghost>>

\* the append of the clock value read at entry (lines 93-94)
RateLimitAppend(p) ==
  /\ pc[p] = "rl_append"
  /\ rate_limit_cache' =
       [rate_limit_cache EXCEPT ![loc[p].u] = Append(@, loc[p].t)]
  /\ Return(p, Ok("RATE_LIMIT_PASSED", NoId))
  /\ UNCHANGED <<now, store, CLAIM_CACHE, claim_session_locks,
                 environ, ghost>>

RateLimitStep(p) ==
  \/ RateLimitPrune(p)
  \/ RateLimitStore(p)
  \/ RateLimitCheck(p)
  \/ RateLimitAppend(p)

\* layer 2: the query of the user's claims for this item
CheckDuplicateClaims(p) ==
  /\ pc[p] = "sc_dup"
  /\ LET r == EligibilityScan(ClaimsOf(loc[p].u, loc[p].i), now) IN
     IF r = "continue" THEN Goto(p, "sc_count") /\ UNCHANGED <<loc, ret>>
     ELSE IF r = "existing_approved_claim"
          THEN \* eligible without a lock: session_locked = False
               /\ pc' = [pc EXCEPT ![p] = "sc_valuable"]
               /\ loc' = [loc EXCEPT ![p].layers = SubSeq(LayerNames, 1, 2)]
               /\ UNCHANGED ret
     ELSE Return(p, FailAt(r, loc[p].layers))
  /\ UNCHANGED <<now, store, memory, environ, ghost>>

\* layer 2: the query of the user's pending claims on any item
CheckConcurrentClaims(p) ==
  /\ pc[p] = "sc_count"
  /\ IF PendingCount(loc[p].u) >= MAX_CONCURRENT_CLAIMS_PER_USER
     THEN Return(p, FailAt("MAX_CONCURRENT_CLAIMS_EXCEEDED", loc[p].layers))
     ELSE Goto(p, "sc_lock") /\ UNCHANGED <<loc, ret>>
  /\ UNCHANGED <<now, store, memory, environ, ghost>>

\* layer 2: _acquire_claim_session_lock
AcquireSessionLock(p) ==
  /\ pc[p] = "sc_lock"
  /\ LET r == acquire_claim_session_lock(claim_session_locks, loc[p].u, now) IN
     /\ claim_session_locks' = r.locks
     /\ IF r.ok
        THEN /\ pc' = [pc EXCEPT ![p] = "sc_valuable"]
             /\ loc' = [loc EXCEPT ![p].lk = TRUE,
                                    ![p].layers = SubSeq(LayerNames, 1, 2)]
             /\ UNCHANGED ret
        ELSE Return(p, FailAt("CLAIM_SESSION_LOCKED", loc[p].layers))
  /\ UNCHANGED <<now, store, CLAIM_CACHE, rate_limit_cache,
                 environ, ghost>>

\* every user with an account document; admins have role admin
role(a) == IF a \in Admins THEN "admin" ELSE "student"

\* layer 3, _validate_valuable_item_handling, on the item document and the
\* account of the approving admin. The ValidationError APPROVAL_EXPIRED is
\* raised inside "try: ... except Exception:" (lines 395-410), which raises
\* INVALID_APPROVAL_TIMESTAMP in its place
valuable_item_handling(i, item, accounts, t) ==
  IF ~is_valuable(i) THEN "ok"
  ELSE IF item.approved_by = None THEN "ok"
  ELSE IF accounts[item.approved_by] = "missing" THEN "INVALID_APPROVING_ADMIN"
  ELSE IF role(item.approved_by) # "admin" THEN "INSUFFICIENT_ADMIN_PRIVILEGES"
  ELSE IF accounts[item.approved_by] # "active" THEN "INACTIVE_APPROVING_ADMIN"
  ELSE IF /\ item.approved_at # NoTime
          /\ t > item.approved_at + APPROVAL_EXPIRATION_HOURS * 3600
       THEN "INVALID_APPROVAL_TIMESTAMP"
  ELSE "ok"

\* layer 3 reads the approving admin's account; layer 4, _validate_claim_state,
\* reads nothing and always passes. A failure releases the lock if this call
\* took it. No operation writes an item's approval, so the item as read by
\* layer 1 is the item in the store. A dry run returns here
ValidateValuableItemHandling(p) ==
  /\ pc[p] = "sc_valuable"
  /\ LET r == valuable_item_handling(loc[p].i, found_items[loc[p].i], users, now) IN
     IF r = "ok"
     THEN /\ UNCHANGED claim_session_locks
          /\ IF loc[p].dry
             THEN Return(p, OkAt("VALIDATED", LayerNames))
             ELSE /\ pc' = [pc EXCEPT ![p] = "sc_layers"]
                  /\ loc' = [loc EXCEPT ![p].layers = LayerNames]
                  /\ UNCHANGED ret
     ELSE /\ claim_session_locks' =
               IF loc[p].lk THEN release_claim_session_lock(claim_session_locks, loc[p].u)
               ELSE claim_session_locks
          /\ Return(p, FailAt(r, loc[p].layers))
  /\ UNCHANGED <<now, store, CLAIM_CACHE, rate_limit_cache,
                 environ, ghost>>

\* all layers passed: start_claim looks for a claim to reuse
CheckExistingClaim(p) ==
  /\ pc[p] = "sc_layers"
  /\ LET c == get_user_claim_status_for_item(loc[p].u, loc[p].i) IN
     IF c # NoId /\ claims[c].status \in {"pending", "approved", "pending_approval"}
     THEN /\ pc' = [pc EXCEPT ![p] = "sc_release"]
          /\ loc' = [loc EXCEPT ![p].n = c, ![p].code = "REUSED"]
     ELSE Goto(p, "sc_recheck") /\ UNCHANGED loc
  /\ UNCHANGED <<now, store, memory, environ, ghost, ret>>

\* the second read of the item, before the claim is created
RecheckItem(p) ==
  /\ pc[p] = "sc_recheck"
  /\ IF found_items[loc[p].i].status # "unclaimed"
     THEN /\ pc' = [pc EXCEPT ![p] = "sc_release"]
          /\ loc' = [loc EXCEPT ![p].code =
                        IF found_items[loc[p].i].status = "missing"
                        THEN "ITEM_NOT_FOUND" ELSE "ITEM_UNAVAILABLE"]
     ELSE Goto(p, "sc_genid") /\ UNCHANGED loc
  /\ UNCHANGED <<now, store, memory, environ, ghost, ret>>

GenerateNextClaimId(p) ==
  /\ pc[p] = "sc_genid"
  /\ pc' = [pc EXCEPT ![p] = "sc_write"]
  /\ loc' = [loc EXCEPT ![p].n = generate_next_claim_id]
  /\ UNCHANGED <<now, store, memory, environ, ghost, ret>>

\* claim_ref.set(claim_doc): creates the document or replaces the one there
WriteClaim(p) ==
  /\ pc[p] = "sc_write"
  /\ loc[p].n \in ClaimIds
  /\ claims' = [claims EXCEPT ![loc[p].n] =
                  NewClaimDoc(loc[p].u, loc[p].i, now, created_seq + 1)]
  /\ created_seq' = created_seq + 1
  /\ pc' = [pc EXCEPT ![p] = "sc_clear"]
  /\ loc' = [loc EXCEPT ![p].code = "CREATED"]
  /\ UNCHANGED <<now, found_items, lockers, users, memory,
                 environ, next_token, calls, verified, ret>>

\* claim_ref.set raises: nothing is written
WriteClaimFails(p) ==
  /\ pc[p] = "sc_write"
  /\ pc' = [pc EXCEPT ![p] = "sc_release"]
  /\ loc' = [loc EXCEPT ![p].code = "CLAIM_CREATION_FAILED"]
  /\ UNCHANGED <<now, store, memory, environ, ghost, ret>>

ClearCacheAfterCreate(p) ==
  /\ pc[p] = "sc_clear"
  /\ CLAIM_CACHE' = [CLAIM_CACHE EXCEPT ![loc[p].n] = NoCache]
  /\ Goto(p, "sc_release")
  /\ UNCHANGED <<now, store, claim_session_locks, rate_limit_cache,
                 environ, ghost, loc, ret>>

\* release_user_session_lock, on the reuse, item-unavailable and created paths,
\* whether or not this call holds the lock; then the response
ReleaseAndReturn(p) ==
  /\ pc[p] = "sc_release"
  /\ claim_session_locks' = release_claim_session_lock(claim_session_locks, loc[p].u)
  /\ Return(p, IF loc[p].code \in {"CREATED", "REUSED"}
               THEN Ok(loc[p].code, loc[p].n) ELSE Fail(loc[p].code))
  /\ UNCHANGED <<now, store, CLAIM_CACHE, rate_limit_cache,
                 environ, ghost>>

StartClaimPcs ==
  {"sc_item", "sc_item_own", "sc_item_other", "sc_rate", "sc_dup", "sc_count",
   "sc_lock", "sc_valuable", "sc_layers", "sc_recheck", "sc_genid", "sc_write",
   "sc_clear", "sc_release"}

StartClaimStep(p) ==
  \/ ValidateFoundItemAvailability(p)
  \/ CheckRateLimit(p)
  \/ CheckDuplicateClaims(p)
  \/ CheckConcurrentClaims(p)
  \/ AcquireSessionLock(p)
  \/ ValidateValuableItemHandling(p)
  \/ CheckExistingClaim(p)
  \/ RecheckItem(p)
  \/ GenerateNextClaimId(p)
  \/ WriteClaim(p)
  \/ ClearCacheAfterCreate(p)
  \/ ReleaseAndReturn(p)

\* the steps of the pipeline and of start_claim over items of any status, with
\* a store whose write of the claim may fail
ValidationStep(p) ==
  \/ StartClaimStep(p)
  \/ CheckOwnApprovedClaim(p)
  \/ CheckOtherApprovedClaim(p)
  \/ WriteClaimFails(p)

\* validate_comprehensive_claim_request(user, item, dry_run=True)
ValidateBegin(p, u, i) ==
  /\ Free(p)
  /\ pc' = [pc EXCEPT ![p] = "sc_item"]
  /\ loc' = [loc EXCEPT ![p] = [NoLoc EXCEPT !.u = u, !.i = i, !.dry = TRUE]]
  /\ ret' = [ret EXCEPT ![p] = NoRet]
  /\ UNCHANGED <<now, store, memory, environ, ghost>>

\* ----------------------------------- capture identity, select the method
\* save_face_image_for_claim with an image that passes the quality checks
SaveFaceImage(c) ==
  /\ claims[c].exists
  /\ claims' = [claims EXCEPT ![c].face_embedding = TRUE]
  /\ UNCHANGED <<now, found_items, lockers, users, memory,
                 environ, ghost, pc, loc, ret>>

\* set_verification_method with method qr_face or qr_rfid
SetVerificationMethod(c, m) ==
  /\ claims[c].exists
  /\ m \in {"qr_face", "qr_rfid"}
  /\ claims' = [claims EXCEPT ![c].verification_method = m]
  /\ UNCHANGED <<now, found_items, lockers, users, memory,
                 environ, ghost, pc, loc, ret>>

\* ------------------------------------------- generate_claim_qr (issue-token)
\* the token is a fresh random string: token number next_token + 1
GenerateQrBegin(p, c) ==
  /\ Free(p)
  /\ next_token < MaxTokens
  /\ next_token' = next_token + 1
  /\ pc' = [pc EXCEPT ![p] = "gq_read"]
  /\ loc' = [loc EXCEPT ![p] = [NoLoc EXCEPT !.c = c, !.tok = next_token + 1]]
  /\ ret' = [ret EXCEPT ![p] = NoRet]
  /\ UNCHANGED <<now, store, memory, environ, created_seq,
                 calls, verified>>

\* variant: the approval of a valuable item's claim is not looked at
QrPrecheck_without_approval(doc) ==
  IF ~doc.exists THEN "CLAIM_NOT_FOUND"
  ELSE IF ~doc.face_embedding THEN "FACE_NOT_CAPTURED"
  ELSE IF doc.verification_method = None THEN "METHOD_NOT_SELECTED"
  ELSE "ok"

\* the checks on the claim as read, in the order of the code
QrPrecheck(doc) ==
  IF ~doc.exists THEN "CLAIM_NOT_FOUND"
  ELSE IF ~doc.face_embedding THEN "FACE_NOT_CAPTURED"
  ELSE IF doc.verification_method = None THEN "METHOD_NOT_SELECTED"
  ELSE IF /\ is_valuable(doc.found_item_id)
          /\ doc.approved_by = None
          /\ doc.status # "approved" THEN "ADMIN_APPROVAL_REQUIRED"
  ELSE "ok"

GenerateQrRead(p) ==
  /\ pc[p] = "gq_read"
  /\ LET doc == claims[loc[p].c]
         r == QrPrecheck(doc) IN
     IF r = "ok"
     THEN /\ pc' = [pc EXCEPT ![p] = "gq_unique"]
          /\ loc' = [loc EXCEPT ![p].cdata = doc]
          /\ UNCHANGED ret
     ELSE Return(p, Fail(r))
  /\ UNCHANGED <<now, store, memory, environ, ghost>>

\* another claim of the same student and item holds a live token
OtherLiveToken(c, doc, t) ==
  \E e \in ClaimsOf(doc.student_id, doc.found_item_id) \ {c} :
    claims[e].qr_token # NoId /\ claims[e].expires_at # NoTime /\ t < claims[e].expires_at

\* variant: the token lives for an hour
qr_expiry_one_hour(t) == t + 60 * 60

\* expires_at_dt: the clock reading plus five minutes
qr_expiry(t) == t + QR_EXPIRY_MINUTES * 60

\* the uniqueness query, then the expiry is computed from the clock
GenerateQrUnique(p) ==
  /\ pc[p] = "gq_unique"
  /\ IF OtherLiveToken(loc[p].c, loc[p].cdata, now)
     THEN Return(p, Fail("QR_ALREADY_REGISTERED_FOR_USER"))
     ELSE /\ pc' = [pc EXCEPT ![p] = "gq_write"]
          /\ loc' = [loc EXCEPT ![p].t = qr_expiry(now)]
          /\ UNCHANGED ret
  /\ UNCHANGED <<now, store, memory, environ, ghost>>

\* rendering or uploading the image fails: nothing is written
GenerateQrImageFails(p) ==
  /\ pc[p] = "gq_write"
  /\ Return(p, Fail("QR_IMAGE_GENERATION_FAILED"))
  /\ UNCHANGED <<now, store, memory, environ, ghost>>

\* claim_ref.update(update_data); a non-valuable item's claim is also stamped
GenerateQrWrite(p) ==
  /\ pc[p] = "gq_write"
  /\ LET c == loc[p].c
         stamped == IF is_valuable(loc[p].cdata.found_item_id) THEN claims[c]
                    ELSE [claims[c] EXCEPT
                            !.approved_by = "system generate no approved required",
                            !.approved_at = now]
     IN claims' = [claims EXCEPT ![c] =
                     [stamped EXCEPT !.qr_token = loc[p].tok, !.expires_at = loc[p].t]]
  /\ Return(p, Ok("QR_ISSUED", loc[p].c))
  /\ UNCHANGED <<now, found_items, lockers, users, memory,
                 environ, ghost>>

GenerateQrStep(p) ==
  \/ GenerateQrRead(p)
  \/ GenerateQrUnique(p)
  \/ GenerateQrImageFails(p)
  \/ GenerateQrWrite(p)

\* -------------------------------------- verify_claim_qr_data (verify-token)
\* the payload {claim_id, student_id, token} as decrypted and schema-checked
VerifyBegin(p, c, u, tok) ==
  /\ Free(p)
  /\ pc' = [pc EXCEPT ![p] = "vf_cache"]
  /\ loc' = [loc EXCEPT ![p] = [NoLoc EXCEPT !.c = c, !.u = u, !.tok = tok]]
  /\ ret' = [ret EXCEPT ![p] = NoRet]
  /\ UNCHANGED <<now, store, memory, environ, ghost>>

CacheFresh(entry, t) == entry.hit /\ t - entry.ts < CLAIM_CACHE_TTL_SECONDS

\* _get_claim_data_cached: the cache lookup
VerifyCacheLookup(p) ==
  /\ pc[p] = "vf_cache"
  /\ IF CacheFresh(CLAIM_CACHE[loc[p].c], now)
     THEN /\ pc' = [pc EXCEPT ![p] = "vf_check"]
          /\ loc' = [loc EXCEPT ![p].cdata = CLAIM_CACHE[loc[p].c].doc, ![p].t = now]
     ELSE /\ pc' = [pc EXCEPT ![p] = "vf_db"]
          /\ loc' = [loc EXCEPT ![p].t = now]
  /\ UNCHANGED <<now, store, memory, environ, ghost, ret>>

\* _get_claim_data_cached: the read of the claim document
VerifyReadClaim(p) ==
  /\ pc[p] = "vf_db"
  /\ IF claims[loc[p].c].exists
     THEN /\ pc' = [pc EXCEPT ![p] = "vf_store"]
          /\ loc' = [loc EXCEPT ![p].cdata = claims[loc[p].c]]
          /\ UNCHANGED ret
     ELSE Return(p, Fail("CLAIM_NOT_FOUND"))
  /\ UNCHANGED <<now, store, memory, environ, ghost>>

\* _get_claim_data_cached: the document is cached with the lookup's timestamp
VerifyStoreCache(p) ==
  /\ pc[p] = "vf_store"
  /\ CLAIM_CACHE' = [CLAIM_CACHE EXCEPT ![loc[p].c] =
                       [hit |-> TRUE, doc |-> loc[p].cdata, ts |-> loc[p].t]]
  /\ Goto(p, "vf_check")
  /\ UNCHANGED <<now, store, claim_session_locks, rate_limit_cache,
                 environ, ghost, loc, ret>>

\* the field checks on the claim data in hand, the account, the expiry
VerifyChecks(cdata, u, tok, account, fallback, t) ==
  IF cdata.student_id # u THEN "STUDENT_MISMATCH"
  ELSE IF cdata.qr_token = NoId THEN "QR_TOKEN_MISSING"
  ELSE IF cdata.qr_token # tok /\ ~fallback THEN "TOKEN_MISMATCH"
  ELSE IF cdata.status # "approved" THEN "CLAIM_NOT_APPROVED"
  ELSE IF account = "missing" THEN "ACCOUNT_NOT_FOUND"
  ELSE IF account # "active" /\ ~fallback THEN "ACCOUNT_NOT_ACTIVE"
  ELSE IF cdata.expires_at = NoTime THEN "QR_EXPIRATION_NOT_SET"
  ELSE IF t > cdata.expires_at THEN "QR_CODE_EXPIRED"
  ELSE "VALID"

VerifyDecide(p) ==
  /\ pc[p] = "vf_check"
  /\ LET r == VerifyChecks(loc[p].cdata, loc[p].u, loc[p].tok, users[loc[p].u],
                           ALLOW_QR_TOKEN_FALLBACK, now) IN
     IF r = "VALID"
     THEN /\ Return(p, Ok("VALID", loc[p].c))
          /\ verified' = verified \cup {loc[p].c}
     ELSE /\ Return(p, Fail(r))
          /\ UNCHANGED verified
  /\ UNCHANGED <<now, store, memory, environ, created_seq,
                 next_token, calls>>

VerifyStep(p) ==
  \/ VerifyCacheLookup(p)
  \/ VerifyReadClaim(p)
  \/ VerifyStoreCache(p)
  \/ VerifyDecide(p)

\* ------------------------------------------------- finalize_claim_kiosk
\* variant: every requested duration is replaced by the default
normalize_duration_default(d) == DEFAULT_DURATION_SEC

\* variant: a duration above the maximum is cut to the maximum
normalize_duration_clamped(d) ==
  IF d <= 0 THEN DEFAULT_DURATION_SEC
  ELSE IF d > MAX_DURATION_SEC THEN MAX_DURATION_SEC ELSE d

normalize_duration(d) ==
  IF d <= 0 \/ d > MAX_DURATION_SEC THEN DEFAULT_DURATION_SEC ELSE d

FinalizeBegin(p, c, d) ==
  /\ Free(p)
  /\ pc' = [pc EXCEPT ![p] = "fk_claim"]
  /\ loc' = [loc EXCEPT ![p] = [NoLoc EXCEPT !.c = c, !.d = d]]
  /\ ret' = [ret EXCEPT ![p] = NoRet]
  /\ UNCHANGED <<now, store, memory, environ, ghost>>

FinalizePrecheck(doc) ==
  IF ~doc.exists THEN "CLAIM_NOT_FOUND"
  ELSE IF ~doc.face_embedding THEN "FACE_NOT_CAPTURED"
  ELSE IF doc.verification_method = None THEN "METHOD_NOT_SELECTED"
  ELSE IF doc.status # "approved" THEN "CLAIM_NOT_APPROVED"
  ELSE "ok"

FinalizeReadClaim(p) ==
  /\ pc[p] = "fk_claim"
  /\ LET doc == claims[loc[p].c]
         r == FinalizePrecheck(doc) IN
     IF r = "ok"
     THEN /\ pc' = [pc EXCEPT ![p] = "fk_item"]
          /\ loc' = [loc EXCEPT ![p].cdata = doc]
          /\ UNCHANGED ret
     ELSE Return(p, Fail(r))
  /\ UNCHANGED <<now, store, memory, environ, ghost>>

\* the read of the item gives its locker_id
FinalizeReadItem(p) ==
  /\ pc[p] = "fk_item"
  /\ IF locker_id(loc[p].cdata.found_item_id) # None
     THEN Goto(p, "fk_locker")
     ELSE Goto(p, "fk_claim_write")
  /\ UNCHANGED <<now, store, memory, environ, ghost, loc, ret>>

\* the read of the locker, then close_at is computed from the clock
FinalizeReadLocker(p) ==
  /\ pc[p] = "fk_locker"
  /\ LET st == lockers[locker_id(loc[p].cdata.found_item_id)].status IN
     IF st = "open" THEN Return(p, Fail("LOCKER_ALREADY_OPEN"))
     ELSE IF st # "occupied" THEN Return(p, Fail("LOCKER_NOT_OCCUPIED"))
     ELSE Goto(p, "fk_batch") /\ UNCHANGED <<loc, ret>>
  /\ UNCHANGED <<now, store, memory, environ, ghost>>

ItemClaimed(item, student) ==
  [item EXCEPT !.status = "claimed", !.claimed_by = student]

\* close_at = utcnow() + duration_sec, then batch.commit(): claim, item and
\* locker are written together; the server timestamp of the commit and the
\* clock read for close_at are the same instant
FinalizeBatchCommit(p) ==
  /\ pc[p] = "fk_batch"
  /\ LET c == loc[p].c
         i == loc[p].cdata.found_item_id IN
     /\ claims' = [claims EXCEPT ![c].status = "completed"]
     /\ found_items' = [found_items EXCEPT
                          ![i] = ItemClaimed(found_items[i], loc[p].cdata.student_id)]
     /\ lockers' = [lockers EXCEPT ![locker_id(i)] =
                      OpenLocker(now, normalize_duration(loc[p].d))]
  /\ Goto(p, "fk_clear")
  /\ UNCHANGED <<now, users, memory, environ, ghost, loc, ret>>

\* no locker: claim_ref.update(...), a write of its own
FinalizeWriteClaim(p) ==
  /\ pc[p] = "fk_claim_write"
  /\ claims' = [claims EXCEPT ![loc[p].c].status = "completed"]
  /\ Goto(p, "fk_item_write")
  /\ UNCHANGED <<now, found_items, lockers, users, memory,
                 environ, ghost, loc, ret>>

\* no locker: the item update, a second write
FinalizeWriteItem(p) ==
  /\ pc[p] = "fk_item_write"
  /\ LET i == loc[p].cdata.found_item_id IN
     found_items' = [found_items EXCEPT
                       ![i] = ItemClaimed(found_items[i], loc[p].cdata.student_id)]
  /\ Goto(p, "fk_clear")
  /\ UNCHANGED <<now, lockers, claims, users, memory, environ,
                 ghost, loc, ret>>

FinalizeClearCache(p) ==
  /\ pc[p] = "fk_clear"
  /\ CLAIM_CACHE' = [CLAIM_CACHE EXCEPT ![loc[p].c] = NoCache]
  /\ Return(p, Ok("COMPLETED", loc[p].c))
  /\ UNCHANGED <<now, store, claim_session_locks, rate_limit_cache,
                 environ, ghost>>

FinalizePcs ==
  {"fk_claim", "fk_item", "fk_locker", "fk_batch", "fk_claim_write",
   "fk_item_write", "fk_clear"}

FinalizeStep(p) ==
  \/ FinalizeReadClaim(p)
  \/ FinalizeReadItem(p)
  \/ FinalizeReadLocker(p)
  \/ FinalizeBatchCommit(p)
  \/ FinalizeWriteClaim(p)
  \/ FinalizeWriteItem(p)
  \/ FinalizeClearCache(p)

\* ------------------------------------- open-locker and close-locker routes
\* kiosk_open_locker_api and open_locker_api, which differ in the admin session
\* the second requires and in the opened_by they record: the request with its
\* locker id and duration
OpenLockerBegin(p, l, d) ==
  /\ Free(p)
  /\ pc' = [pc EXCEPT ![p] = "ol_read"]
  /\ loc' = [loc EXCEPT ![p] = [NoLoc EXCEPT !.l = l, !.d = d]]
  /\ ret' = [ret EXCEPT ![p] = NoRet]
  /\ UNCHANGED <<now, store, memory, environ, ghost>>

\* ref.get() and the tests of the snapshot
OpenLockerRead(p) ==
  /\ pc[p] = "ol_read"
  /\ IF loc[p].l \notin Lockers THEN Return(p, Fail("LOCKER_NOT_FOUND"))
     ELSE IF lockers[loc[p].l].status = "open"
          THEN Return(p, Fail("LOCKER_ALREADY_OPEN"))
     ELSE IF lockers[loc[p].l].status # "occupied"
          THEN Return(p, Fail("LOCKER_NOT_OCCUPIED"))
     ELSE Goto(p, "ol_write") /\ UNCHANGED <<loc, ret>>
  /\ UNCHANGED <<now, store, memory, environ, ghost>>

\* close_at = utcnow() + duration_sec and ref.update(...)
OpenLockerWrite(p) ==
  /\ pc[p] = "ol_write"
  /\ lockers' = [lockers EXCEPT ![loc[p].l] =
                   OpenLocker(now, normalize_duration(loc[p].d))]
  /\ Return(p, Ok("LOCKER_OPENED", NoId))
  /\ UNCHANGED <<now, found_items, claims, users, memory,
                 environ, ghost>>

\* kiosk_close_locker_api and close_locker_api: the request
CloseLockerBegin(p, l) ==
  /\ Free(p)
  /\ pc' = [pc EXCEPT ![p] = "cl_read"]
  /\ loc' = [loc EXCEPT ![p] = [NoLoc EXCEPT !.l = l]]
  /\ ret' = [ret EXCEPT ![p] = NoRet]
  /\ UNCHANGED <<now, store, memory, environ, ghost>>

\* ref.get(): only the existence of the locker is tested
CloseLockerRead(p) ==
  /\ pc[p] = "cl_read"
  /\ IF loc[p].l \notin Lockers THEN Return(p, Fail("LOCKER_NOT_FOUND"))
     ELSE Goto(p, "cl_write") /\ UNCHANGED <<loc, ret>>
  /\ UNCHANGED <<now, store, memory, environ, ghost>>

\* ref.update(status occupied, auto_close_at None)
CloseLockerWrite(p) ==
  /\ pc[p] = "cl_write"
  /\ lockers' = [lockers EXCEPT ![loc[p].l] =
                   [@ EXCEPT !.status = "occupied", !.auto_close_at = NoTime]]
  /\ Return(p, Ok("LOCKER_CLOSED", NoId))
  /\ UNCHANGED <<now, found_items, claims, users, memory,
                 environ, ghost>>

LockerStep(p) ==
  \/ OpenLockerRead(p)
  \/ OpenLockerWrite(p)
  \/ CloseLockerRead(p)
  \/ CloseLockerWrite(p)

\* --------------------------- update_claim_status (public status update)
UpdateStatusBegin(p, c) ==
  /\ Free(p)
  /\ pc' = [pc EXCEPT ![p] = "us_read"]
  /\ loc' = [loc EXCEPT ![p] = [NoLoc EXCEPT !.c = c]]
  /\ ret' = [ret EXCEPT ![p] = NoRet]
  /\ UNCHANGED <<now, store, memory, environ, ghost>>

UpdateStatusRead(p) ==
  /\ pc[p] = "us_read"
  /\ LET doc == claims[loc[p].c] IN
     IF ~doc.exists THEN Return(p, Fail("CLAIM_NOT_FOUND"))
     ELSE IF doc.status # "approved" THEN Return(p, Fail("INVALID_TRANSITION"))
     ELSE Goto(p, "us_write") /\ UNCHANGED <<loc, ret>>
  /\ UNCHANGED <<now, store, memory, environ, ghost>>

UpdateStatusWrite(p) ==
  /\ pc[p] = "us_write"
  /\ claims' = [claims EXCEPT ![loc[p].c].status = "completed"]
  /\ Goto(p, "us_clear")
  /\ UNCHANGED <<now, found_items, lockers, users, memory,
                 environ, ghost, loc, ret>>

UpdateStatusClearCache(p) ==
  /\ pc[p] = "us_clear"
  /\ CLAIM_CACHE' = [CLAIM_CACHE EXCEPT ![loc[p].c] = NoCache]
  /\ Return(p, Ok("COMPLETED", loc[p].c))
  /\ UNCHANGED <<now, store, claim_session_locks, rate_limit_cache,
                 environ, ghost>>

UpdateStatusStep(p) ==
  \/ UpdateStatusRead(p)
  \/ UpdateStatusWrite(p)
  \/ UpdateStatusClearCache(p)

\* ------------------------------------------------ admin approve and reject
\* variant: the account's status is not looked at
validate_admin_status_for_approval_role_only(adm) == adm \in Admins

\* validate_admin_status_for_approval: the admin exists, has role admin (every
\* member of Admins has) and is active
validate_admin_status_for_approval(adm) == adm \in Admins /\ users[adm] = "active"

ApproveBegin(p, c, adm) ==
  /\ Free(p)
  /\ pc' = [pc EXCEPT ![p] = "ap_admin"]
  /\ loc' = [loc EXCEPT ![p] = [NoLoc EXCEPT !.c = c, !.adm = adm]]
  /\ ret' = [ret EXCEPT ![p] = NoRet]
  /\ UNCHANGED <<now, store, memory, environ, ghost>>

ApproveValidateAdmin(p) ==
  /\ pc[p] = "ap_admin"
  /\ IF validate_admin_status_for_approval(loc[p].adm)
     THEN Goto(p, "ap_read") /\ UNCHANGED <<loc, ret>>
     ELSE Return(p, Fail("ADMIN_NOT_VALID"))
  /\ UNCHANGED <<now, store, memory, environ, ghost>>

ApproveReadClaim(p) ==
  /\ pc[p] = "ap_read"
  /\ LET doc == claims[loc[p].c] IN
     IF ~doc.exists THEN Return(p, Fail("CLAIM_NOT_FOUND"))
     ELSE IF doc.status # "pending" THEN Return(p, Fail("CLAIM_ALREADY_PROCESSED"))
     ELSE /\ pc' = [pc EXCEPT ![p] = "ap_write"]
          /\ loc' = [loc EXCEPT ![p].cdata = doc]
          /\ UNCHANGED ret
  /\ UNCHANGED <<now, store, memory, environ, ghost>>

ApproveWrite(p) ==
  /\ pc[p] = "ap_write"
  /\ claims' = [claims EXCEPT ![loc[p].c] =
                  [@ EXCEPT !.status = "approved", !.approved_by = loc[p].adm,
                            !.approved_at = now]]
  /\ Goto(p, "ap_query")
  /\ UNCHANGED <<now, found_items, lockers, users, memory,
                 environ, ghost, loc, ret>>

\* the query of the other pending claims of the same item
ApproveQueryPending(p) ==
  /\ pc[p] = "ap_query"
  /\ pc' = [pc EXCEPT ![p] = "ap_cancel"]
  /\ loc' = [loc EXCEPT ![p].ids =
               {e \in ExistingIds \ {loc[p].c} :
                  /\ claims[e].found_item_id = loc[p].cdata.found_item_id
                  /\ claims[e].status = "pending"}]
  /\ UNCHANGED <<now, store, memory, environ, ghost, ret>>

\* one update per claim found by the query, in document order
ApproveCancelOther(p) ==
  /\ pc[p] = "ap_cancel"
  /\ loc[p].ids # {}
  /\ LET e == Min(loc[p].ids) IN
     /\ claims' = [claims EXCEPT ![e].status = "cancelled"]
     /\ loc' = [loc EXCEPT ![p].ids = @ \ {e}]
  /\ UNCHANGED <<now, found_items, lockers, users, memory,
                 environ, ghost, pc, ret>>

ApproveReturn(p) ==
  /\ pc[p] = "ap_cancel"
  /\ loc[p].ids = {}
  /\ Return(p, Ok("APPROVED", loc[p].c))
  /\ UNCHANGED <<now, store, memory, environ, ghost>>

ApproveStep(p) ==
  \/ ApproveValidateAdmin(p)
  \/ ApproveReadClaim(p)
  \/ ApproveWrite(p)
  \/ ApproveQueryPending(p)
  \/ ApproveCancelOther(p)
  \/ ApproveReturn(p)

RejectBegin(p, c, adm) ==
  /\ Free(p)
  /\ pc' = [pc EXCEPT ![p] = "rj_admin"]
  /\ loc' = [loc EXCEPT ![p] = [NoLoc EXCEPT !.c = c, !.adm = adm]]
  /\ ret' = [ret EXCEPT ![p] = NoRet]
  /\ UNCHANGED <<now, store, memory, environ, ghost>>

RejectValidateAdmin(p) ==
  /\ pc[p] = "rj_admin"
  /\ IF validate_admin_status_for_approval(loc[p].adm)
     THEN Goto(p, "rj_read") /\ UNCHANGED <<loc, ret>>
     ELSE Return(p, Fail("ADMIN_NOT_VALID"))
  /\ UNCHANGED <<now, store, memory, environ, ghost>>

RejectReadClaim(p) ==
  /\ pc[p] = "rj_read"
  /\ LET doc == claims[loc[p].c] IN
     IF ~doc.exists THEN Return(p, Fail("CLAIM_NOT_FOUND"))
     ELSE IF doc.status # "pending" THEN Return(p, Fail("CLAIM_ALREADY_PROCESSED"))
     ELSE Goto(p, "rj_write") /\ UNCHANGED <<loc, ret>>
  /\ UNCHANGED <<now, store, memory, environ, ghost>>

RejectWrite(p) ==
  /\ pc[p] = "rj_write"
  /\ claims' = [claims EXCEPT ![loc[p].c].status = "rejected"]
  /\ Return(p, Ok("REJECTED", loc[p].c))
  /\ UNCHANGED <<now, found_items, lockers, users, memory,
                 environ, ghost>>

RejectStep(p) ==
  \/ RejectValidateAdmin(p)
  \/ RejectReadClaim(p)
  \/ RejectWrite(p)

\* ------------------------------------------------------------ cancel_claim
CancelBegin(p, c, u) ==
  /\ Free(p)
  /\ pc' = [pc EXCEPT ![p] = "cn_read"]
  /\ loc' = [loc EXCEPT ![p] = [NoLoc EXCEPT !.c = c, !.u = u]]
  /\ ret' = [ret EXCEPT ![p] = NoRet]
  /\ UNCHANGED <<now, store, memory, environ, ghost>>

\* variant: a claim of the caller is cancelled whatever its status
CancelReadClaim_any_status(p) ==
  /\ pc[p] = "cn_read"
  /\ LET doc == claims[loc[p].c] IN
     IF loc[p].c = NoId \/ loc[p].u = None THEN Return(p, Fail("MISSING_IDS"))
     ELSE IF ~doc.exists THEN Return(p, Fail("CLAIM_NOT_FOUND"))
     ELSE IF doc.student_id # loc[p].u THEN Return(p, Fail("FORBIDDEN"))
     ELSE Goto(p, "cn_write") /\ UNCHANGED <<loc, ret>>
  /\ UNCHANGED <<now, store, memory, environ, ghost>>

\* the tests before the write: 400, 404, 403, 409
CancelReadClaim(p) ==
  /\ pc[p] = "cn_read"
  /\ LET doc == claims[loc[p].c] IN
     IF loc[p].c = NoId \/ loc[p].u = None THEN Return(p, Fail("MISSING_IDS"))
     ELSE IF ~doc.exists THEN Return(p, Fail("CLAIM_NOT_FOUND"))
     ELSE IF doc.student_id # loc[p].u THEN Return(p, Fail("FORBIDDEN"))
     ELSE IF doc.status # "pending" THEN Return(p, Fail("CANNOT_CANCEL"))
     ELSE Goto(p, "cn_write") /\ UNCHANGED <<loc, ret>>
  /\ UNCHANGED <<now, store, memory, environ, ghost>>

CancelWrite(p) ==
  /\ pc[p] = "cn_write"
  /\ claims' = [claims EXCEPT ![loc[p].c].status = "cancelled"]
  /\ Return(p, Ok("CANCELLED", loc[p].c))
  /\ UNCHANGED <<now, found_items, lockers, users, memory,
                 environ, ghost>>

CancelStep(p) ==
  \/ CancelReadClaim(p)
  \/ CancelWrite(p)

\* ------------------------------------------------------- crypto_service
\* A text is a sequence of characters. A Fernet token is the text of a marker,
\* the key and the payload: base64url text, which holds neither ':' nor '{'.
\* A key in the key map is a valid Fernet key; no text has whitespace to strip.
VersionNames == {<<"v", "1">>, <<"v", "2">>, <<"v", ":", "1">>}
KeyOf(v) == IF v = <<"v", "1">> THEN "k1" ELSE IF v = <<"v", "2">> THEN "k2" ELSE "k3"
Payloads == {"p1", "p2"}

FernetEncrypt(key, payload) == <<"gAAAAA", key, payload>>

\* f.decrypt(token): the payload, or None for InvalidToken
FernetDecrypt(key, token) ==
  IF Len(token) = 3 /\ token[1] = "gAAAAA" /\ token[2] = key THEN token[3] ELSE None

CharCode == [c \in {"1", "2", ":", "v"} |->
               IF c = "1" THEN 49 ELSE IF c = "2" THEN 50 ELSE IF c = ":" THEN 58 ELSE 118]

RECURSIVE TextLess(_, _)
TextLess(a, b) ==
  IF a = <<>> THEN b # <<>>
  ELSE IF b = <<>> THEN FALSE
  ELSE IF Head(a) = Head(b) THEN TextLess(Tail(a), Tail(b))
  ELSE CharCode[Head(a)] < CharCode[Head(b)]

\* _get_active_version: the configured name, or the first name in sorted
\* order when none is configured; None for CryptoConfigError
get_active_version(key_map, active) ==
  LET v == IF active # <<>> THEN active
           ELSE CHOOSE x \in DOMAIN key_map :
                  \A y \in DOMAIN key_map : x = y \/ TextLess(x, y)
  IN IF v \in DOMAIN key_map THEN v ELSE None

\* json.dumps({'v': version, 'd': token}): the text is kept as the opening
\* brace followed by the two members, since json.loads returns what
\* json.dumps was given
JsonEnvelope(version, token) == <<"{", version, token>>

\* the compact form 'version:ciphertext' of a JSON envelope
CompactEnvelope(e) == e[2] \o <<":">> \o e[3]

\* encrypt_bytes_with_envelope; _load_key_map rejects an empty key map
encrypt_bytes_with_envelope(key_map, active, payload) ==
  IF DOMAIN key_map = {} \/ get_active_version(key_map, active) = None THEN None
  ELSE LET version == get_active_version(key_map, active)
       IN JsonEnvelope(version, FernetEncrypt(key_map[version], payload))

\* the position of the first ':' of a text, 0 when it has none
FirstColon(text) ==
  LET at == {k \in 1..Len(text) : text[k] = ":"}
  IN IF at = {} THEN 0 ELSE CHOOSE k \in at : \A j \in at : k <= j

\* get_fernet_for_version(version).decrypt(token): the payload, or the error
decrypt_with_version(key_map, version, token) ==
  IF version \notin DOMAIN key_map THEN Fail("CRYPTO_CONFIG_ERROR")
  ELSE LET payload == FernetDecrypt(key_map[version], token)
       IN IF payload = None THEN Fail("INVALID_TOKEN")
          ELSE [Ok("DECRYPTED", NoId) EXCEPT !.body = payload]

\* decrypt_envelope_to_bytes: the compact form when the text has a ':' and
\* does not start with '{', else the JSON form
decrypt_envelope_to_bytes(key_map, text) ==
  IF text = <<>> THEN Fail("INVALID_TOKEN")
  ELSE IF text[1] # "{" /\ FirstColon(text) # 0
  THEN LET at == FirstColon(text)
       IN decrypt_with_version(key_map, SubSeq(text, 1, at - 1),
                               SubSeq(text, at + 1, Len(text)))
  ELSE IF Len(text) # 3 THEN Fail("INVALID_TOKEN")
  ELSE decrypt_with_version(key_map, text[2], text[3])

\* the operator sets the environment: the key map and the active version
ConfigureKeys(names, active) ==
  /\ \A p \in Procs : Free(p)
  /\ QRECLAIM_FERNET_KEYS' = [v \in names |-> KeyOf(v)]
  /\ QRECLAIM_FERNET_ACTIVE' = active
  /\ UNCHANGED <<now, store, memory, ALLOW_QR_TOKEN_FALLBACK, qr_codes, ghost,
                 pc, loc, ret>>

\* a call of encrypt_bytes_with_envelope; the envelope goes into a QR code
EncryptEnvelope(p, payload) ==
  /\ Free(p)
  /\ LET e == encrypt_bytes_with_envelope(QRECLAIM_FERNET_KEYS,
                                          QRECLAIM_FERNET_ACTIVE, payload)
     IN IF e = None
        THEN Return(p, Fail("CRYPTO_CONFIG_ERROR")) /\ UNCHANGED qr_codes
        ELSE Return(p, Ok("ENCRYPTED", NoId)) /\ qr_codes' = qr_codes \cup {e}
  /\ UNCHANGED <<now, store, memory, ALLOW_QR_TOKEN_FALLBACK,
                 QRECLAIM_FERNET_KEYS, QRECLAIM_FERNET_ACTIVE, ghost>>

\* a scanned text arrives: an envelope produced earlier, in either form
DecryptBegin(p, text) ==
  /\ Free(p)
  /\ pc' = [pc EXCEPT ![p] = "de_run"]
  /\ loc' = [loc EXCEPT ![p] = [NoLoc EXCEPT !.envelope = text]]
  /\ ret' = [ret EXCEPT ![p] = NoRet]
  /\ UNCHANGED <<now, store, memory, environ, ghost>>

DecryptEnvelope(p) ==
  /\ pc[p] = "de_run"
  /\ Return(p, decrypt_envelope_to_bytes(QRECLAIM_FERNET_KEYS, loc[p].envelope))
  /\ UNCHANGED <<now, store, memory, environ, ghost>>

\* ---------------------------------------------- face_recognition_service
\* An embedding is a sequence of integers. The arithmetic is that of the real
\* numbers, without the rounding of floats: the cosine score dot / (sqrt(norm_a)
\* * sqrt(norm_b)) is kept as dot and the squared denominator norm_a * norm_b.
THRESHOLD_PERCENT == 85

RECURSIVE SumOver(_, _, _)
SumOver(a, b, k) ==
  IF k = 0 THEN 0 ELSE SumOver(a, b, k - 1) + a[k] * b[k]

\* the loop of cosine_similarity: sum of x * y over zip(a, b)
Dot(a, b) == SumOver(a, b, Min({Len(a), Len(b)}))

\* _validate_embeddings
validate_embeddings(a, b) == Len(a) # 0 /\ Len(b) # 0 /\ Len(a) = Len(b)

\* variant: the score of a vector of zero norm is 1
cosine_similarity_unguarded(a, b) ==
  IF Dot(a, a) * Dot(b, b) = 0 THEN [num |-> 1, den2 |-> 1]
  ELSE [num |-> Dot(a, b), den2 |-> Dot(a, a) * Dot(b, b)]

\* cosine_similarity of valid embeddings: 0.0 when denom == 0.0
cosine_similarity(a, b) ==
  IF Dot(a, a) * Dot(b, b) = 0 THEN [num |-> 0, den2 |-> 1]
  ELSE [num |-> Dot(a, b), den2 |-> Dot(a, a) * Dot(b, b)]

\* score >= percent / 100 for a cosine score and a percent above 0
ScoreAtLeast(score, percent) ==
  score.num > 0 /\ 100 * 100 * score.num * score.num >= percent * percent * score.den2

\* l2_distance of valid embeddings, kept as its square
l2_distance(a, b) ==
  [sq |-> Dot(a, a) - 2 * Dot(a, b) + Dot(b, b)]

\* is_match with the default threshold
is_match(a, b, method) ==
  IF method \notin {"cosine", "l2"} \/ ~validate_embeddings(a, b) THEN Fail("VALUE_ERROR")
  ELSE IF method = "cosine"
  THEN LET score == cosine_similarity(a, b)
       IN [Ok("MATCH_DECIDED", NoId) EXCEPT
             !.body = [match |-> ScoreAtLeast(score, THRESHOLD_PERCENT), score |-> score]]
  ELSE LET score == l2_distance(a, b)
       IN [Ok("MATCH_DECIDED", NoId) EXCEPT
             !.body = [match |-> 100 * 100 * score.sq <=
                                   (100 - THRESHOLD_PERCENT) * (100 - THRESHOLD_PERCENT),
                       score |-> score]]

MatchBegin(p, a, b, method) ==
  /\ Free(p)
  /\ pc' = [pc EXCEPT ![p] = "im_run"]
  /\ loc' = [loc EXCEPT ![p] = [NoLoc EXCEPT !.a = a, !.b = b, !.code = method]]
  /\ ret' = [ret EXCEPT ![p] = NoRet]
  /\ UNCHANGED <<now, store, memory, environ, ghost>>

MatchReturn(p) ==
  /\ pc[p] = "im_run"
  /\ Return(p, is_match(loc[p].a, loc[p].b, loc[p].code))
  /\ UNCHANGED <<now, store, memory, environ, ghost>>

\* ------------------------------------- update_expired_claims (the sweeper)
\* variant: a token is taken as expired from its expiry time on
SweepTargets_from_expiry(t) ==
  {c \in ExistingIds :
     /\ claims[c].status = "approved"
     /\ claims[c].qr_token # NoId
     /\ claims[c].expires_at # NoTime
     /\ ~(claims[c].expires_at > t)}

\* variant: a token is left alone for five more minutes after its expiry
SweepTargets_with_grace(t) ==
  {c \in ExistingIds :
     /\ claims[c].status = "approved"
     /\ claims[c].qr_token # NoId
     /\ claims[c].expires_at # NoTime
     /\ ~(claims[c].expires_at + QR_EXPIRY_MINUTES * 60 >= t)}

\* the claims the loop decides to expire, from the documents as streamed
SweepTargets(t) ==
  {c \in ExistingIds :
     /\ claims[c].status = "approved"
     /\ claims[c].qr_token # NoId
     /\ claims[c].expires_at # NoTime
     /\ ~(claims[c].expires_at >= t)}

\* max_instances=1: one run of the job at a time
SweepBegin(p) ==
  /\ Free(p)
  /\ \A q \in Procs : pc[q] # "sw_write"
  /\ pc' = [pc EXCEPT ![p] = "sw_write"]
  /\ loc' = [loc EXCEPT ![p] = [NoLoc EXCEPT !.ids = SweepTargets(now)]]
  /\ ret' = [ret EXCEPT ![p] = NoRet]
  /\ UNCHANGED <<now, store, memory, environ, ghost>>

SweepExpire(p) ==
  /\ pc[p] = "sw_write"
  /\ loc[p].ids # {}
  /\ LET e == Min(loc[p].ids) IN
     /\ claims' = [claims EXCEPT ![e].status = "expired"]
     /\ loc' = [loc EXCEPT ![p].ids = @ \ {e}]
  /\ UNCHANGED <<now, found_items, lockers, users, memory,
                 environ, ghost, pc, ret>>

SweepReturn(p) ==
  /\ pc[p] = "sw_write"
  /\ loc[p].ids = {}
  /\ Return(p, Ok("SWEPT", NoId))
  /\ UNCHANGED <<now, store, memory, environ, ghost>>

SweepStep(p) ==
  \/ SweepExpire(p)
  \/ SweepReturn(p)

\* ------------------------------------------------------------------- time
\* the clock advances by d seconds, up to the horizon
Tick(d, horizon) ==
  /\ now + d <= horizon
  /\ now' = now + d
  /\ UNCHANGED <<store, memory, environ, ghost, pc, loc, ret>>

\* ------------------------------------------------------------ specifications
\* concurrent start_claim calls of one student
StartItems == {"i1", "i2", "i3"}

NextStart ==
  \E p \in Procs :
    \/ \E i \in StartItems : StartClaimBegin(p, "s1", i)
    \/ StartClaimStep(p)

SpecStart == Init /\ [][NextStart]_vars

\* issue, verify and complete: the operations on the claim of student s1 for
\* a non-valuable item (i1 in a locker, i4 without one), one call at a time in
\* call slot 1, the clock advancing by the token lifetime
TokenItems == {"i1", "i4"}
TokenTick == QR_EXPIRY_MINUTES * 60

NextToken ==
  \/ calls < SeqCalls /\ \E i \in TokenItems : StartClaimBegin(1, "s1", i)
  \/ StartClaimStep(1)
  \/ Free(1) /\ \E c \in ClaimIds : SaveFaceImage(c)
  \/ Free(1) /\ \E c \in ClaimIds : SetVerificationMethod(c, "qr_face")
  \/ \E c \in ExistingIds : GenerateQrBegin(1, c)
  \/ GenerateQrStep(1)
  \/ \E c \in ExistingIds, u \in Students, tok \in 1..MaxTokens : VerifyBegin(1, c, u, tok)
  \/ VerifyStep(1)
  \/ \E c \in ExistingIds : FinalizeBegin(1, c, DEFAULT_DURATION_SEC)
  \/ FinalizeStep(1)
  \/ \E c \in ExistingIds : UpdateStatusBegin(1, c)
  \/ UpdateStatusStep(1)
  \/ SweepBegin(1)
  \/ SweepStep(1)
  \/ Free(1) /\ Tick(TokenTick, MaxTicks * TokenTick)

SpecToken == Init /\ [][NextToken]_vars

\* verify-token under every setting of the environment toggle and every state
\* of the student's account: student s1 starts a claim for item i1, captures
\* identity, has tokens issued and presents payloads, one call at a time
AccountStates == {"active", "inactive", "missing"}

InitVerify ==
  \E st \in AccountStates, fb \in BOOLEAN :
    InitStore(FreshItems, [ActiveUsers EXCEPT !["s1"] = st], fb, 0)

NextVerify ==
  \/ calls < SeqCalls /\ StartClaimBegin(1, "s1", "i1")
  \/ StartClaimStep(1)
  \/ Free(1) /\ \E c \in ClaimIds : SaveFaceImage(c)
  \/ Free(1) /\ \E c \in ClaimIds : SetVerificationMethod(c, "qr_face")
  \/ \E c \in ExistingIds : GenerateQrBegin(1, c)
  \/ GenerateQrStep(1)
  \/ \E c \in ExistingIds, u \in Students, tok \in 1..MaxTokens : VerifyBegin(1, c, u, tok)
  \/ VerifyStep(1)
  \/ Free(1) /\ Tick(TokenTick, MaxTicks * TokenTick)

SpecVerify == InitVerify /\ [][NextVerify]_vars

\* issue-token on claims in every stage of preparation: each student starts
\* one claim for item i1 (non-valuable) or i2 (valuable), identity capture,
\* method selection and the admin's decision happen in any order, and
\* issue-token is called for any claim id, one call at a time in call slot 1
IssueItems == {"i1", "i2"}

NextIssue ==
  \/ \E u \in Students, i \in IssueItems :
       ClaimsOfStudent(u) = {} /\ StartClaimBegin(1, u, i)
  \/ StartClaimStep(1)
  \/ Free(1) /\ \E c \in ClaimIds : SaveFaceImage(c)
  \/ Free(1) /\ \E c \in ClaimIds : SetVerificationMethod(c, "qr_face")
  \/ \E c \in ExistingIds, adm \in Admins : ApproveBegin(1, c, adm)
  \/ ApproveStep(1)
  \/ \E c \in ExistingIds, adm \in Admins : RejectBegin(1, c, adm)
  \/ RejectStep(1)
  \/ \E c \in ClaimIds : c <= Cardinality(ExistingIds) + 1 /\ GenerateQrBegin(1, c)
  \/ GenerateQrStep(1)
  \/ Free(1) /\ Tick(TokenTick, TokenTick)

SpecIssue == Init /\ [][NextIssue]_vars

\* two claims of one student for one item, the first one completed before the
\* second is started, and issue-token calls that may overlap
PairCallers == {1, 2}
AllFree == \A p \in Procs : Free(p)

NextPair ==
  \/ /\ \A c \in ClaimsOfStudent("s1") :
          claims[c].status = "completed" /\ claims[c].verification_method # None
     /\ StartClaimBegin(1, "s1", "i4")
  \/ StartClaimStep(1)
  \/ AllFree /\ \E c \in ClaimIds : SaveFaceImage(c)
  \/ AllFree /\ \E c \in ClaimIds : SetVerificationMethod(c, "qr_face")
  \/ AllFree /\ \E c \in ExistingIds :
                  claims[c].verification_method # None /\ UpdateStatusBegin(1, c)
  \/ UpdateStatusStep(1)
  \/ /\ \A q \in Procs \ PairCallers : Free(q)
     /\ \A q \in PairCallers : Free(q) \/ pc[q] \in {"gq_read", "gq_unique", "gq_write"}
     /\ \E p \in PairCallers, c \in ExistingIds : GenerateQrBegin(p, c)
  \/ \E p \in PairCallers : GenerateQrStep(p)
  \/ AllFree /\ Tick(TokenTick, TokenTick)

SpecPair == Init /\ [][NextPair]_vars

\* start_claim twice in immediate succession: call slot 1 creates a claim, then
\* call slot 2 repeats the call for the same student and item
NextTwice ==
  \/ calls = 0 /\ \E u \in Students, i \in Items : StartClaimBegin(1, u, i)
  \/ StartClaimStep(1)
  \/ /\ pc[1] = "done" /\ ret[1].code = "CREATED" /\ pc[2] = "idle"
     /\ StartClaimBegin(2, claims[ret[1].claim_id].student_id,
                        claims[ret[1].claim_id].found_item_id)
  \/ StartClaimStep(2)

SpecTwice == Init /\ [][NextTwice]_vars

\* the life of the claims of a valuable item without a locker: each student
\* starts a claim for item i2 (call slot 1, one call at a time), student s1
\* captures identity and has a token issued, then the operations that change a
\* claim's status run in two overlapping call slots
LifeCallers == {1, 2}
LifeClaims == Cardinality(Students)
LifeTick == 2 * QR_EXPIRY_MINUTES * 60
LifeStarted == calls = LifeClaims /\ pc[1] \notin StartClaimPcs

\* call slot 1: the student's and the kiosk's calls, an admin's decision
LifeBeginFirst ==
  \/ \E c \in ClaimsOfStudent("s1") : GenerateQrBegin(1, c)
  \/ \E c \in ExistingIds, adm \in Admins : ApproveBegin(1, c, adm)
  \/ \E c \in ExistingIds, adm \in Admins : RejectBegin(1, c, adm)
  \/ \E c \in ExistingIds : CancelBegin(1, c, claims[c].student_id)
  \/ \E c \in ClaimsOfStudent("s1") : FinalizeBegin(1, c, DEFAULT_DURATION_SEC)

\* call slot 2: another admin request, the public status update, the sweeper
LifeBeginSecond ==
  \/ \E c \in ExistingIds, adm \in Admins : ApproveBegin(2, c, adm)
  \/ \E c \in ClaimsOfStudent("s1") : UpdateStatusBegin(2, c)
  \/ SweepBegin(2)

\* item i2 has no locker: finalize takes the path of the two separate writes
LifeStep(p) ==
  \/ GenerateQrStep(p)
  \/ ApproveStep(p)
  \/ RejectStep(p)
  \/ CancelStep(p)
  \/ FinalizeReadClaim(p)
  \/ FinalizeReadItem(p)
  \/ FinalizeWriteClaim(p)
  \/ FinalizeWriteItem(p)
  \/ FinalizeClearCache(p)
  \/ UpdateStatusStep(p)
  \/ SweepStep(p)

NextLife ==
  \/ /\ calls < LifeClaims /\ Free(2)
     /\ \E u \in Students : ClaimsOf(u, "i2") = {} /\ StartClaimBegin(1, u, "i2")
  \/ StartClaimStep(1)
  \/ /\ \A p \in LifeCallers : Free(p)
     /\ \E c \in ClaimsOfStudent("s1") :
          SaveFaceImage(c) \/ SetVerificationMethod(c, "qr_face")
  \/ LifeStarted /\ (LifeBeginFirst \/ LifeBeginSecond)
  \/ \E p \in LifeCallers : LifeStep(p)
  \/ (\A p \in LifeCallers : Free(p)) /\ Tick(LifeTick, LifeTick)

SpecLife == Init /\ [][NextLife]_vars

\* every operation that touches a claim, one call at a time in call slot 1:
\* student s1 starts a claim for the valuable item i2 and may start again
\* while the claim is pending or approved (the reuse path), captures identity,
\* has tokens issued, presents payloads and finalizes; an admin approves or
\* rejects, the student cancels, the public status update and the sweeper run
OpsBegin ==
  \/ /\ \/ ExistingIds = {}
        \/ /\ calls <= SeqCalls
           /\ \E c \in ExistingIds : claims[c].status \in {"pending", "approved"}
     /\ StartClaimBegin(1, "s1", "i2")
  \/ \E c \in ExistingIds : GenerateQrBegin(1, c)
  \/ \E c \in ExistingIds :
       claims[c].qr_token # NoId /\ VerifyBegin(1, c, "s1", claims[c].qr_token)
  \/ \E c \in ExistingIds : FinalizeBegin(1, c, DEFAULT_DURATION_SEC)
  \/ \E c \in ExistingIds : UpdateStatusBegin(1, c)
  \/ \E c \in ExistingIds, adm \in Admins : ApproveBegin(1, c, adm)
  \/ \E c \in ExistingIds, adm \in Admins : RejectBegin(1, c, adm)
  \/ \E c \in ExistingIds : CancelBegin(1, c, claims[c].student_id)
  \/ SweepBegin(1)

\* no other student has a pending claim for the item: approve cancels none
OpsStep ==
  \/ StartClaimStep(1)
  \/ GenerateQrStep(1)
  \/ VerifyStep(1)
  \/ ApproveValidateAdmin(1)
  \/ ApproveReadClaim(1)
  \/ ApproveWrite(1)
  \/ ApproveQueryPending(1)
  \/ ApproveReturn(1)
  \/ RejectStep(1)
  \/ CancelStep(1)
  \/ FinalizeReadClaim(1)
  \/ FinalizeReadItem(1)
  \/ FinalizeWriteClaim(1)
  \/ FinalizeWriteItem(1)
  \/ FinalizeClearCache(1)
  \/ UpdateStatusStep(1)
  \/ SweepStep(1)

NextOps ==
  \/ OpsBegin
  \/ OpsStep
  \/ Free(1) /\ \E c \in ExistingIds : SaveFaceImage(c)
  \/ Free(1) /\ \E c \in ExistingIds : SetVerificationMethod(c, "qr_face")
  \/ Free(1) /\ Tick(LifeTick, LifeTick)

SpecOps == Init /\ [][NextOps]_vars

\* the same operations around a clock step of 25 hours, which takes an admin's
\* approval past its 24 hours
StaleTick == (APPROVAL_EXPIRATION_HOURS + 1) * 3600

NextStale ==
  \/ OpsBegin
  \/ OpsStep
  \/ Free(1) /\ \E c \in ExistingIds : SaveFaceImage(c)
  \/ Free(1) /\ \E c \in ExistingIds : SetVerificationMethod(c, "qr_face")
  \/ Free(1) /\ Tick(StaleTick, StaleTick)

SpecStale == Init /\ [][NextStale]_vars

\* the validation pipeline over every content of the item document it reads:
\* the valuable item i2 has any status, is missing, or carries an approval by
\* admin a1 or by the non-admin s2, recorded at time 0; the account of a1 is in
\* any state; a student may already hold an approved claim for the item; the
\* clock stands at 24 hours or one second later. Students start claims for i2
\* and for the non-valuable i4 and run dry-run validations, one call at a time
ItemStatuses ==
  {"unclaimed", "claimed", "approved", "pending_verification", "returned", "missing"}
PipelineTimes == {APPROVAL_EXPIRATION_HOURS * 3600, APPROVAL_EXPIRATION_HOURS * 3600 + 1}

ApprovedClaimOf(u) ==
  [NewClaimDoc(u, "i2", 0, 1) EXCEPT !.status = "approved", !.approved_by = "a1",
                                     !.approved_at = 0]

InitPipeline ==
  \E st \in ItemStatuses, by \in {None, "a1", "s2"}, acc \in AccountStates,
     t \in PipelineTimes, holder \in Students \cup {None} :
    InitStoreWith(
      [FreshItems EXCEPT !["i2"] = [@ EXCEPT !.status = st, !.approved_by = by,
                                             !.approved_at = IF by = None THEN NoTime ELSE 0]],
      [c \in ClaimIds |-> IF c = 1 /\ holder # None THEN ApprovedClaimOf(holder) ELSE NoClaim],
      [ActiveUsers EXCEPT !["a1"] = acc], FALSE, t)

NextPipeline ==
  \/ \E u \in Students, i \in {"i2", "i4"} : calls <= SeqCalls /\ StartClaimBegin(1, u, i)
  \/ \E u \in Students : ValidateBegin(1, u, "i2")
  \/ ValidationStep(1)

SpecPipeline == InitPipeline /\ [][NextPipeline]_vars

\* the kiosk: each student starts one claim for a non-valuable item (i1 in
\* locker L1, i4 without a locker), captures identity, selects the method and
\* finalizes with a requested duration, one call at a time in call slot 1
KioskItems == {"i1", "i4"}
KioskDurations == {0, 1, DEFAULT_DURATION_SEC, MAX_DURATION_SEC, MAX_DURATION_SEC + 1}
KioskTick == DEFAULT_DURATION_SEC

NextKiosk ==
  \/ \E u \in Students, i \in KioskItems :
       ClaimsOfStudent(u) = {} /\ StartClaimBegin(1, u, i)
  \/ StartClaimStep(1)
  \/ Free(1) /\ \E c \in ClaimIds : SaveFaceImage(c)
  \/ Free(1) /\ \E c \in ClaimIds : SetVerificationMethod(c, "qr_face")
  \/ \E c \in ExistingIds, d \in KioskDurations : FinalizeBegin(1, c, d)
  \/ FinalizeStep(1)
  \/ Free(1) /\ Tick(KioskTick, MaxTicks * KioskTick)

SpecKiosk == Init /\ [][NextKiosk]_vars

\* two overlapping start_claim calls of student s1 for the same item, one per
\* call slot; the second begins before the first has returned
TwoCallers == {1, 2}
TwoItems == {"i1", "i2"}
LockTick == (CLAIM_SESSION_LOCK_DURATION_MINUTES * 60) \div MaxTicks

BeginOverlapping(p, i) ==
  /\ pc[p] = "idle"
  /\ \A q \in TwoCallers \ {p} : pc[q] # "done" /\ (pc[q] # "idle" => loc[q].i = i)
  /\ StartClaimBegin(p, "s1", i)

NextTwo ==
  \/ \E p \in TwoCallers, i \in TwoItems : BeginOverlapping(p, i)
  \/ \E p \in TwoCallers : StartClaimStep(p)
  \/ Tick(LockTick, MaxTicks * LockTick)

SpecTwo == Init /\ [][NextTwo]_vars

\* one start_claim call per call slot, each by either student, for item i2,
\* overlapping or not, while the clock runs up to the lock's 30 minutes
NextLock ==
  \/ \E p \in TwoCallers, u \in Students : pc[p] = "idle" /\ StartClaimBegin(p, u, "i2")
  \/ \E p \in TwoCallers : StartClaimStep(p)
  \/ Tick(LockTick, MaxTicks * LockTick)

SpecLock == Init /\ [][NextLock]_vars

\* the locker L1 holding item i1, for which student s1 has an approved claim
\* with identity captured; the locker starts occupied or available; finalize,
\* open-locker and close-locker calls run in two call slots
LockerIds == Lockers \cup {"L9"}
LockerStatuses == {"occupied", "available"}

ReadyClaim ==
  [NewClaimDoc("s1", "i1", 0, 1) EXCEPT !.face_embedding = TRUE,
                                        !.verification_method = "qr_face"]

InitLocker ==
  \E st \in LockerStatuses :
    InitWith(FreshItems, [c \in ClaimIds |-> IF c = 1 THEN ReadyClaim ELSE NoClaim],
             ActiveUsers, FALSE, 0, [l \in Lockers |-> ClosedLocker(st)],
             [s \in Students |-> <<>>])

NextLocker ==
  \/ \E p \in TwoCallers, d \in KioskDurations : FinalizeBegin(p, 1, d)
  \/ \E p \in TwoCallers :
       \/ FinalizeReadClaim(p)
       \/ FinalizeReadItem(p)
       \/ FinalizeReadLocker(p)
       \/ FinalizeBatchCommit(p)
       \/ FinalizeClearCache(p)
  \/ \E p \in TwoCallers, l \in LockerIds, d \in KioskDurations : OpenLockerBegin(p, l, d)
  \/ \E p \in TwoCallers, l \in LockerIds : CloseLockerBegin(p, l)
  \/ \E p \in TwoCallers : LockerStep(p)
  \/ Tick(KioskTick, MaxTicks * KioskTick)

SpecLocker == InitLocker /\ [][NextLocker]_vars

\* the sweeper alone over two stored claims of every status, without a token
\* or with a token issued at second 0, 1 or 2, the clock starting when the
\* token of second 1 reaches its expiry
SweepTokenTimes == {0, 1, 2}
SweepDocs ==
  LET base(st) == [NewClaimDoc("s1", "i2", 0, 1) EXCEPT !.status = st]
  IN {base(st) : st \in {"pending", "approved", "completed", "rejected",
                         "cancelled", "expired"}}
     \cup {[base(st) EXCEPT !.face_embedding = TRUE,
                            !.verification_method = "qr_face",
                            !.qr_token = 1, !.expires_at = qr_expiry(t)] :
             st \in {"approved", "completed", "expired"}, t \in SweepTokenTimes}

InitSweep ==
  \E d1, d2 \in SweepDocs :
    InitStoreWith(FreshItems,
                  [c \in ClaimIds |-> IF c = 1 THEN d1
                                      ELSE IF c = 2 THEN [d2 EXCEPT !.student_id = "s2"]
                                      ELSE NoClaim],
                  ActiveUsers, FALSE, qr_expiry(1))

NextSweep ==
  \/ SweepBegin(1)
  \/ SweepStep(1)
  \/ Free(1) /\ Tick(1, qr_expiry(2))

SpecSweep == InitSweep /\ [][NextSweep]_vars

\* the crypto envelope alone: the operator configures key maps over the
\* version names and rotates the active version, payloads are encrypted, and the
\* envelopes produced are decrypted in the JSON form or the compact form
NextEnvelope ==
  \/ \E names \in SUBSET VersionNames, active \in VersionNames \cup {<<>>} :
       ConfigureKeys(names, active)
  \/ \E payload \in Payloads : EncryptEnvelope(1, payload)
  \/ \E e \in qr_codes : DecryptBegin(1, e) \/ DecryptBegin(1, CompactEnvelope(e))
  \/ DecryptEnvelope(1)

SpecEnvelope == Init /\ [][NextEnvelope]_vars

\* the identity matcher alone, called once, over the embeddings of up to
\* MaxDim components
MaxDim == 2
EmbeddingValues == {-1, 0, 1, 2}
Embeddings == UNION {[1..n -> EmbeddingValues] : n \in 0..MaxDim}
MatchMethods == {"cosine", "l2", "hamming"}

NextMatch ==
  \/ \E a, b \in Embeddings, method \in MatchMethods :
       pc[1] = "idle" /\ MatchBegin(1, a, b, method)
  \/ MatchReturn(1)

SpecMatch == Init /\ [][NextMatch]_vars

\* student cancel alone, one call at a time, over the stored claims of the
\* sweeper's specification: claim 1 of student s1 and claim 2 of student s2 in
\* every status, the other claim ids missing; either student calls for any id
NextCancel ==
  \/ \E c \in ClaimIds, u \in Students : CancelBegin(1, c, u)
  \/ CancelStep(1)

SpecCancel == InitSweep /\ [][NextCancel]_vars

\* the rate limiter alone, called from two request threads for either student;
\* a student starts with no entry or with RateFilled checks accepted at time 0
RateFilled == MAX_REQUESTS_PER_WINDOW - 1
RateTick == RATE_LIMIT_WINDOW_SECONDS \div (MaxTicks - 1)

InitRate ==
  \E rl \in [Students -> {<<>>, [k \in 1..RateFilled |-> 0]}] :
    InitWith(FreshItems, [c \in ClaimIds |-> NoClaim], ActiveUsers, FALSE, 0,
             [l \in Lockers |-> ClosedLocker("occupied")], rl)

NextRate ==
  \/ \E p \in TwoCallers, u \in Students : RateLimitBegin(p, u)
  \/ \E p \in TwoCallers : RateLimitStep(p)
  \/ Tick(RateTick, MaxTicks * RateTick)

SpecRate == InitRate /\ [][NextRate]_vars

\* C1: in every reachable state, for every (student, item) pair, at most one
\* claim has a status in {pending, pending_approval, approved}.
ActiveStatuses == {"pending", "pending_approval", "approved"}

ActiveClaimsOf(u, i) == {c \in ClaimsOf(u, i) : claims[c].status \in ActiveStatuses}

C1_OneActiveClaimPerPair ==
  \A u \in Students, i \in Items : Cardinality(ActiveClaimsOf(u, i)) <= 1

\* C4: in every reachable state each student has at most one pending claim.
C4_OnePendingClaimPerStudent ==
  \A u \in Students : PendingCount(u) <= 1

\* C2 (as stated): when both overlapping calls have returned, exactly one claim
\* record exists for the pair, one call created it and the other returned
\* CLAIM_SESSION_LOCKED or a reused-claim response with the winner's claim id.
BothReturned == \A p \in TwoCallers : pc[p] = "done"

RaceOutcome(loserCodes) ==
  \E w \in TwoCallers :
    /\ ret[w].code = "CREATED"
    /\ Cardinality(ExistingIds) = 1
    /\ \A l \in TwoCallers \ {w} :
         \/ ret[l].code \in loserCodes
         \/ ret[l].code = "REUSED" /\ ret[l].claim_id = ret[w].claim_id

C3_SecondStartReturnsSameClaim ==
  pc[2] = "done" =>
    /\ ret[2].ok
    /\ ret[2].claim_id = ret[1].claim_id
    /\ Cardinality(ExistingIds) = 1

\* C5: every change of a claim's status is pending->approved, pending->rejected,
\* pending->cancelled, approved->expired or approved->completed, so a
\* completed, rejected, cancelled or expired claim never changes status again
AllowedTransitions ==
  {<<"pending", "approved">>, <<"pending", "rejected">>, <<"pending", "cancelled">>,
   <<"approved", "expired">>, <<"approved", "completed">>}

C5_OnlyAllowedTransitions ==
  [][\A c \in ClaimIds :
       claims[c].exists /\ claims'[c].status # claims[c].status =>
         <<claims[c].status, claims'[c].status>> \in AllowedTransitions]_vars

\* C6: in no state is a claim completed while its item is not claimed, the item
\* claimed by the claim's student while the claim is still approved, or a
\* locker open while its item is not claimed
C6_FinalizeAllOrNothing ==
  /\ \A c \in ExistingIds :
       LET item == found_items[claims[c].found_item_id] IN
         /\ claims[c].status = "completed" => item.status = "claimed"
         /\ claims[c].status = "approved" =>
              ~(item.status = "claimed" /\ item.claimed_by = claims[c].student_id)
  /\ \A i \in Items :
       locker_id(i) # None /\ lockers[locker_id(i)].status = "open" =>
         found_items[i].status = "claimed"

\* the precondition of finalize(claim, d) in the call of slot p: the claim is
\* approved with face embedding and method, its item's locker is occupied, and
\* 1 <= d <= 3600
FinalizeReady(p) ==
  LET d == claims[loc[p].c] IN
    /\ pc[p] \in FinalizePcs
    /\ d.exists /\ d.status = "approved" /\ d.face_embedding
    /\ d.verification_method # None
    /\ locker_id(d.found_item_id) # None
    /\ lockers[locker_id(d.found_item_id)].status = "occupied"
    /\ loc[p].d >= 1 /\ loc[p].d <= MAX_DURATION_SEC

\* what finalize yields from the stored state: the claim completed, the item
\* claimed by the claim's student, the locker open until now + d
FinalizeYield(p) ==
  LET c == loc[p].c
      i == claims[c].found_item_id IN
    /\ claims' = [claims EXCEPT ![c].status = "completed"]
    /\ found_items' = [found_items EXCEPT
                         ![i] = [@ EXCEPT !.status = "claimed",
                                          !.claimed_by = claims[c].student_id]]
    /\ lockers' = [lockers EXCEPT
                     ![locker_id(i)] = OpenLocker(now, loc[p].d)]
    /\ users' = users

\* C7: finalize(claim, d) with 1 <= d <= 3600 on an approved claim with face
\* embedding and method, whose item's locker is occupied, does not fail and
\* changes the store in one step to exactly: claim completed, item claimed by
\* the claim's student, locker open until finalize time plus d; then it succeeds
C7_FinalizeYieldsExactly ==
  [][\A p \in Procs :
       /\ FinalizeReady(p) =>
            /\ store' = store \/ FinalizeYield(p)
            /\ pc'[p] # "done"
       /\ pc[p] = "fk_clear" => store' = store /\ ret'[p] = Ok("COMPLETED", loc[p].c)
       /\ pc[p] \in FinalizePcs /\ ret'[p].code = "COMPLETED" =>
            /\ claims[loc[p].c].status = "completed"
            /\ found_items[claims[loc[p].c].found_item_id].status = "claimed"]_vars

\* a finalize with d = 3600 of a claim for the item in locker L1 has succeeded
\* while another claim exists
C7_Witness ==
  /\ Cardinality(ExistingIds) = 2
  /\ ret[1].code = "COMPLETED"
  /\ found_items["i1"].status = "claimed"
  /\ claims[ret[1].claim_id].found_item_id = "i1"
  /\ lockers["L1"] = OpenLocker(now, MAX_DURATION_SEC)

\* a verify-token call of slot p returns valid in this step
VerifyReturnsValid(p) == pc[p] = "vf_check" /\ ret'[p].code = "VALID"

\* C8: a claim is completed, and a locker is open, only if a token was issued
\* for the claim and an earlier verify-token call returned valid for it
C8_CompletedOnlyAfterVerify ==
  /\ \A c \in ClaimIds :
       claims[c].status = "completed" => claims[c].qr_token # NoId /\ c \in verified
  /\ \A k \in Lockers : lockers[k].status = "open" => verified # {}

\* C9: with the escape hatch disabled, verify-token returns valid only if the
\* claim record as stored has the payload's student, the payload's token and
\* status approved, whatever an earlier verify-token has read
C9_ValidOnlyForStoredToken ==
  [][\A p \in Procs :
       VerifyReturnsValid(p) /\ ~ALLOW_QR_TOKEN_FALLBACK =>
         /\ claims[loc[p].c].student_id = loc[p].u
         /\ claims[loc[p].c].qr_token = loc[p].tok
         /\ claims[loc[p].c].status = "approved"]_vars

\* C10: verify-token returns valid only when the current time is strictly
\* earlier than the token expiry of the claim it checked
C10_ValidOnlyBeforeExpiry ==
  [][\A p \in Procs :
       VerifyReturnsValid(p) => now < loc[p].cdata.expires_at]_vars

\* C11: verify-token never returns valid for a payload whose student account
\* is missing or not active, whatever the setting of the toggle
C11_ValidOnlyForActiveAccount ==
  [][\A p \in Procs : VerifyReturnsValid(p) => users[loc[p].u] = "active"]_vars

\* the precondition of issue-token on a claim document
IssueReady(d) ==
  /\ d.exists /\ d.face_embedding /\ d.verification_method # None
  /\ is_valuable(d.found_item_id) => (d.approved_by # None \/ d.status = "approved")

LiveTokenClaims(u, i) == {c \in ClaimsOf(u, i) : TokenLive(claims[c], now)}

\* C13: in every reachable state, every (student, item) pair has at most one
\* claim with a live token, also when issue-token calls for two claims of the
\* pair overlap
C13_OneLiveTokenPerPair ==
  \A u \in Students, i \in Items : Cardinality(LiveTokenClaims(u, i)) <= 1

\* C14: a successful issue-token stores an expiry of exactly the clock reading
\* of the call plus 5 minutes, and no step of any other operation changes the
\* stored token or expiry of any claim
C14_ExpiryFiveMinutesAndStable ==
  [][/\ \A p \in Procs :
          /\ pc[p] = "gq_unique" /\ pc'[p] = "gq_write" =>
                loc'[p].t = now + QR_EXPIRY_MINUTES * 60
          /\ pc[p] = "gq_write" /\ pc'[p] # pc[p] /\ ret'[p].ok =>
                /\ claims'[loc[p].c].qr_token = loc[p].tok
                /\ claims'[loc[p].c].expires_at = loc[p].t
     /\ \A c \in ClaimIds :
          \/ /\ claims'[c].qr_token = claims[c].qr_token
             /\ claims'[c].expires_at = claims[c].expires_at
          \/ \E p \in Procs :
               pc[p] = "gq_write" /\ pc'[p] # pc[p] /\ loc[p].c = c /\ ret'[p].ok]_vars

\* a claim completed by the kiosk after its token ran out still holds the
\* token and the expiry of five minutes after the issue at time 0
C14_Witness ==
  \E c \in ExistingIds :
    /\ claims[c].status = "completed"
    /\ claims[c].qr_token # NoId
    /\ claims[c].expires_at = QR_EXPIRY_MINUTES * 60
    /\ now > claims[c].expires_at
    /\ found_items[claims[c].found_item_id].status = "claimed"

\* the approval of a valuable item's claim is more than 24 hours old
ApprovalStale(d, t) ==
  /\ d.exists /\ is_valuable(d.found_item_id)
  /\ d.approved_at # NoTime
  /\ t > d.approved_at + APPROVAL_EXPIRATION_HOURS * 3600

\* C15: issue-token, verify-token and kiosk finalize never succeed for a claim
\* on a valuable item whose approved_at is more than 24 hours before now
C15_NoSuccessOnStaleApproval ==
  [][\A p \in Procs :
       /\ pc[p] \in {"gq_write", "vf_check"} \cup FinalizePcs
       /\ pc'[p] = "done" /\ ret'[p].ok
       => ~ApprovalStale(claims[loc[p].c], now)]_vars

\* the item read by call p carries an approval by an existing, active admin
ItemApprovedByActiveAdmin(p) ==
  LET item == found_items[loc[p].i] IN
    /\ is_valuable(loc[p].i)
    /\ item.approved_by \in Admins /\ users[item.approved_by] = "active"
    /\ item.approved_at # NoTime

OnlyPastClaimWithLiveToken(p) ==
  LET S == ClaimsOf(loc[p].u, loc[p].i) IN
    /\ \E c \in S : TokenLive(claims[c], now)
    /\ \A c \in S : claims[c].status \notin {"pending", "approved"}

\* C17: a non-dry-run validation that reaches the user-eligibility layer
\* within the rate limit fails with ACTIVE_QR_EXISTS whenever the user has, for
\* this item, a claim that is neither pending nor approved and holds a live
\* token; no claim is created and no session lock is left held
C17_LiveTokenBlocksNewClaim ==
  [][\A p \in Procs :
       pc[p] = "sc_dup" /\ pc'[p] # pc[p] /\ ~loc[p].dry /\ OnlyPastClaimWithLiveToken(p) =>
         /\ ret'[p] = FailAt("ACTIVE_QR_EXISTS", SubSeq(LayerNames, 1, 1))
         /\ claims' = claims
         /\ claim_session_locks' = claim_session_locks]_vars

\* an approved claim for the item of call p, held by the caller; by another user
OwnApprovedClaim(p) ==
  \E c \in ClaimsOf(loc[p].u, loc[p].i) : claims[c].status = "approved"

OtherApprovedClaim(p) ==
  \E c \in ExistingIds :
    /\ claims[c].found_item_id = loc[p].i /\ claims[c].student_id # loc[p].u
    /\ claims[c].status = "approved"

IsLayerPrefix(s) == Len(s) <= Len(LayerNames) /\ s = SubSeq(LayerNames, 1, Len(s))

\* the layer a call is in, from its position; the codes each layer fails with
LayerAt(label) ==
  IF label \in {"sc_item", "sc_item_own", "sc_item_other"} THEN 1
  ELSE IF label \in {"sc_rate", "sc_dup", "sc_count", "sc_lock"} THEN 2
  ELSE IF label = "sc_valuable" THEN 3
  ELSE 0

LayerCodes(k) ==
  IF k = 1 THEN {"ITEM_NOT_FOUND", "ITEM_ALREADY_CLAIMED", "ITEM_APPROVED_BY_OTHER_USER",
                 "ITEM_PENDING_VERIFICATION", "ITEM_NOT_AVAILABLE"}
  ELSE IF k = 2 THEN {"RATE_LIMIT_EXCEEDED", "DUPLICATE_PENDING_CLAIM",
                      "MAX_CONCURRENT_CLAIMS_EXCEEDED", "CLAIM_SESSION_LOCKED"}
  ELSE {"INVALID_APPROVING_ADMIN", "INSUFFICIENT_ADMIN_PRIVILEGES",
        "INACTIVE_APPROVING_ADMIN", "INVALID_APPROVAL_TIMESTAMP"}

\* C19: the layers run in the order item availability, user eligibility,
\* valuable-item handling, claim-state validation and stop at the first
\* failure: layers_passed of every result is a prefix of that order, a failure
\* carries a code of the layer it stopped in and lists exactly the layers
\* before it, and while the call is in the item-availability layer no
\* rate-limit timestamp is recorded and no session lock is taken
C19_LayersInOrderStopAtFirstFailure ==
  [][\A p \in Procs :
       /\ IsLayerPrefix(ret'[p].layers) /\ IsLayerPrefix(loc'[p].layers)
       /\ pc'[p] # pc[p] /\ LayerAt(pc[p]) > 0 =>
            /\ LayerAt(pc'[p]) > 0 => LayerAt(pc'[p]) >= LayerAt(pc[p])
            /\ pc'[p] = "done" /\ ~ret'[p].ok =>
                 /\ ret'[p].code \in LayerCodes(LayerAt(pc[p]))
                 /\ ret'[p].layers = SubSeq(LayerNames, 1, LayerAt(pc[p]) - 1)
            /\ pc'[p] # "done" /\ LayerAt(pc'[p]) # LayerAt(pc[p]) =>
                 Len(loc'[p].layers) >= LayerAt(pc[p])
            /\ LayerAt(pc[p]) = 1 =>
                 /\ rate_limit_cache' = rate_limit_cache
                 /\ claim_session_locks' = claim_session_locks]_vars

\* a call stopped in the valuable-item layer after the first two layers had
\* passed: its timestamp is recorded and its lock released; an earlier call
\* stopped in the item-availability layer left no timestamp
C19_Witness ==
  /\ ret[1].code = "INACTIVE_APPROVING_ADMIN"
  /\ ret[1].layers = SubSeq(LayerNames, 1, 2)
  /\ \E u \in Students :
       /\ Len(rate_limit_cache[u]) = 1 /\ claim_session_locks[u] = NoTime
       /\ \A v \in Students \ {u} : rate_limit_cache[v] = <<>>
  /\ calls > 1

\* C20: whenever a start-claim call returns, on every exit path, the session
\* lock it acquired is no longer held; with no other call in flight, the next
\* start-claim of the same user is never rejected with CLAIM_SESSION_LOCKED
C20_LockReleasedOnEveryExit ==
  /\ (\A p \in Procs : Free(p)) =>
       \A u \in Students : ~LockHeld(claim_session_locks, u, now)
  /\ \A p \in Procs : ret[p].code # "CLAIM_SESSION_LOCKED"

\* a user's second start-claim created a claim after the first one, which had
\* taken the lock, ended without creating one
C20_Witness ==
  /\ ret[1].code = "CREATED" /\ pc[1] = "done"
  /\ ExistingIds = {ret[1].claim_id}
  /\ Len(rate_limit_cache[claims[ret[1].claim_id].student_id]) > 1
  /\ \A u \in Students : claim_session_locks[u] = NoTime

\* C21: acquiring the session lock of a user succeeds and records the current
\* time exactly when the user has no lock or the recorded lock is at least 30
\* minutes old; otherwise it fails with CLAIM_SESSION_LOCKED and leaves the
\* recorded time unchanged; the locks of the other users are not touched
C21_LockAcquiredIffFreeOrExpired ==
  [][\A p \in Procs :
       pc[p] = "sc_lock" /\ pc'[p] # pc[p] =>
         LET u == loc[p].u
             free == \/ claim_session_locks[u] = NoTime
                     \/ now - claim_session_locks[u] >=
                          CLAIM_SESSION_LOCK_DURATION_MINUTES * 60
         IN /\ IF free
               THEN pc'[p] = "sc_valuable" /\ claim_session_locks'[u] = now
               ELSE /\ pc'[p] = "done" /\ ret'[p].code = "CLAIM_SESSION_LOCKED"
                    /\ claim_session_locks'[u] = claim_session_locks[u]
            /\ \A v \in Students \ {u} :
                 claim_session_locks'[v] = claim_session_locks[v]]_vars

\* one call was refused while the overlapping call of the same student still
\* holds the live lock it took
C21_Witness ==
  \E p, q \in Procs :
    /\ ret[p].code = "CLAIM_SESSION_LOCKED"
    /\ pc[q] = "sc_valuable" /\ loc[q].lk
    /\ LockHeld(claim_session_locks, loc[q].u, now)
    /\ claim_session_locks[loc[q].u] < now

\* C22: for every user, at most 10 accepted checks have their timestamps inside
\* the trailing 60-second window: the user's entry of the rate limiter never
\* holds more than 10 timestamps of the window
C22_AtMostTenPerWindow ==
  \A u \in Students :
    Len(Prune(rate_limit_cache[u], now)) <= MAX_REQUESTS_PER_WINDOW

\* C23: the claim document a start-claim writes takes its status from the
\* item's valuability alone: approved with the automatic approval stamp
\* (approved_by and approved_at set) for a non-valuable item, pending with
\* approved_by and approved_at empty for a valuable one; token, expiry,
\* embedding and method are empty in both cases
C23_InitialStatusFromValuability ==
  [][\A p \in Procs :
       pc[p] = "sc_write" /\ pc'[p] = "sc_clear" =>
         LET doc == claims'[loc[p].n]
             i == loc[p].i
         IN /\ doc.exists /\ doc.found_item_id = i /\ doc.student_id = loc[p].u
            /\ IF is_valuable(i)
               THEN /\ doc.status = "pending"
                    /\ doc.approved_by = None /\ doc.approved_at = NoTime
               ELSE /\ doc.status = "approved"
                    /\ doc.approved_by = "system_auto_approval"
                    /\ doc.approved_at = now
            /\ doc.qr_token = NoId /\ doc.expires_at = NoTime
            /\ ~doc.face_embedding /\ doc.verification_method = None]_vars

\* a claim for a non-valuable item and a claim for a valuable item have both
\* been created and the calls have returned
C23_Witness ==
  \E c, d \in ExistingIds :
    /\ ~is_valuable(claims[c].found_item_id) /\ claims[c].status = "approved"
    /\ is_valuable(claims[d].found_item_id) /\ claims[d].status = "pending"
    /\ \E p \in Procs : pc[p] = "done" /\ ret[p].ok /\ ret[p].claim_id = d

\* C24: a locker's status becomes open only by a transition from occupied:
\* every step of finalize, kiosk open-locker, admin open-locker and close-locker
\* that writes a locker record with status open finds the record occupied,
\* under any interleaving of these operations
C24_OpenOnlyFromOccupied ==
  [][\A l \in Lockers :
       lockers'[l] # lockers[l] /\ lockers'[l].status = "open" =>
         lockers[l].status = "occupied"]_vars

\* the locker a call of slot p is about to write
TargetLocker(p) ==
  IF pc[p] = "fk_batch" THEN locker_id(loc[p].cdata.found_item_id) ELSE loc[p].l

C26_CloseOnlyWhenOpen ==
  [][\A p \in Procs :
       pc[p] = "cl_write" /\ pc'[p] # pc[p] =>
         IF lockers[loc[p].l].status = "open"
         THEN lockers'[loc[p].l].status = "occupied"
         ELSE lockers'[loc[p].l] = lockers[loc[p].l]]_vars

\* the claim c is approved, has a token and an expiry, and the expiry is
\* strictly earlier than t
Expirable(c, t) ==
  /\ claims[c].exists /\ claims[c].status = "approved"
  /\ claims[c].qr_token # NoId /\ claims[c].expires_at # NoTime
  /\ claims[c].expires_at < t

\* C27: one run of the sweeper sets status expired on exactly the claims that
\* are approved, have a token and an expiry strictly earlier than the run's
\* time: each of its writes turns one such claim to expired and changes no
\* other field and no other claim, and when the run ends no such claim is left
C27_SweepExpiresExactlyDueClaims ==
  [][\A p \in Procs :
       pc[p] = "sw_write" =>
         /\ \A c \in ClaimIds :
              claims'[c] # claims[c] =>
                /\ Expirable(c, now)
                /\ claims'[c] = [claims[c] EXCEPT !.status = "expired"]
         /\ <<found_items', lockers', users'>> = <<found_items, lockers, users>>
         /\ pc'[p] = "done" => \A c \in ClaimIds : ~Expirable(c, now)]_vars

\* a run has ended that expired claim 1, whose token had run out one second
\* before, and left claim 2, approved with a token expiring at this very second
C27_Witness ==
  /\ pc[1] = "done" /\ ret[1].code = "SWEPT"
  /\ claims[1].status = "expired" /\ claims[1].expires_at = now - 1
  /\ claims[2].status = "approved" /\ claims[2].qr_token # NoId
  /\ claims[2].expires_at = now

\* C28: decrypting an envelope that encryption produced for payload p under
\* version v, in the JSON form or in the compact form 'version:ciphertext',
\* returns exactly p whenever v is in the key map at the time of decryption,
\* whatever the active version then is
C28_EnvelopeRoundTrip ==
  [][\A p \in Procs :
       pc[p] = "de_run" /\ pc'[p] = "done" =>
         \A e \in qr_codes :
           loc[p].envelope \in {e, CompactEnvelope(e)}
           /\ e[2] \in DOMAIN QRECLAIM_FERNET_KEYS =>
             ret'[p].ok /\ ret'[p].body = e[3][3]]_vars

\* the cosine score is exactly 1, exactly 0
ScoreIsOne(score) == score.num > 0 /\ score.num * score.num = score.den2
ScoreIsZero(score) == score.num = 0

C30_CancelOnlyOwnPending ==
  [][\A p \in Procs :
       pc[p] \in {"cn_read", "cn_write"} /\ pc'[p] # pc[p] =>
         LET c == loc[p].c
             doc == claims[c]
             own_pending == doc.exists /\ doc.student_id = loc[p].u
                            /\ doc.status = "pending"
         IN /\ claims' # claims =>
                 /\ own_pending
                 /\ claims' = [claims EXCEPT ![c].status = "cancelled"]
                 /\ ret'[p].ok
            /\ pc[p] = "cn_read" /\ ~own_pending =>
                 /\ claims' = claims /\ pc'[p] = "done" /\ ~ret'[p].ok
                 /\ ret'[p].code = IF ~doc.exists THEN "CLAIM_NOT_FOUND"
                                   ELSE IF doc.student_id # loc[p].u THEN "FORBIDDEN"
                                   ELSE "CANNOT_CANCEL"
            /\ pc'[p] = "done" /\ ret'[p].ok => claims'[c].status = "cancelled"]_vars

\* a student has cancelled their own pending claim, while the other claim, of
\* the other student, is pending and untouched
C30_Witness ==
  \E c \in ExistingIds :
    /\ pc[1] = "done" /\ ret[1] = Ok("CANCELLED", c)
    /\ claims[c].status = "cancelled"
    /\ \E d \in ExistingIds \ {c} : claims[d].status = "pending"

\* C31: for every found item at most one claim ever has status completed (kiosk
\* finalize never succeeds for a claim whose item is already claimed), also
\* when several students hold approved claims for the same item.
CompletedClaimsOf(i) ==
  {c \in ExistingIds : claims[c].found_item_id = i /\ claims[c].status = "completed"}

C31_AtMostOneCompletedPerItem ==
  \A i \in Items : Cardinality(CompletedClaimsOf(i)) <= 1

\* C32: at most one claim per found item is in status approved at any time;
\* no start-claim by another student and no auto-approval of a non-valuable
\* item produces a second approved claim for the item.
ApprovedClaimsOf(i) ==
  {c \in ExistingIds : claims[c].found_item_id = i /\ claims[c].status = "approved"}

C32_AtMostOneApprovedPerItem ==
  \A i \in Items : Cardinality(ApprovedClaimsOf(i)) <= 1

\* C33: a session lock is released only by the start-claim call that acquired
\* it: every step that removes the lock of a user is a step of a call of that
\* user which holds the lock it took (no reuse path, error path or dry run
\* removes the lock of another in-flight call).
C33_LockReleasedOnlyByHolder ==
  [][\A u \in Students :
       (claim_session_locks[u] # NoTime /\ claim_session_locks'[u] = NoTime) =>
         \E p \in Procs : pc'[p] # pc[p] /\ loc[p].u = u /\ loc[p].lk]_vars

\* C34: every claim created by start-claim receives an identifier different
\* from the identifier of every existing claim: the step that writes the new
\* claim document leaves every existing claim's record as it was, also when
\* start-claim calls of two different students overlap.
C34_CreateNeverOverwrites ==
  [][created_seq' # created_seq =>
       \A c \in ExistingIds : claims'[c] = claims[c]]_vars

\* C35: in every state with no call in flight, a claim whose status is
\* completed has its found item in status claimed with claimed_by equal to the
\* claim's student, whether it was completed by kiosk finalize or by the
\* public status update.
C35_CompletedClaimHasClaimedItem ==
  (\A p \in Procs : Free(p)) =>
    \A c \in ExistingIds :
      claims[c].status = "completed" =>
        /\ found_items[claims[c].found_item_id].status = "claimed"
        /\ found_items[claims[c].found_item_id].claimed_by = claims[c].student_id

\* C36: a freshly issued token is accepted: a verify-token call that decides
\* on a payload carrying the claim's stored student and stored token, before
\* the stored expiry, while the claim is approved and the student's account is
\* active, returns valid, also when an earlier verify-token for the same
\* claim ran less than 30 seconds before the token was issued.
C36_FreshTokenAccepted ==
  [][\A p \in Procs :
       /\ pc[p] = "vf_check" /\ pc'[p] = "done"
       /\ claims[loc[p].c].exists
       /\ claims[loc[p].c].student_id = loc[p].u
       /\ claims[loc[p].c].qr_token = loc[p].tok
       /\ claims[loc[p].c].status = "approved"
       /\ users[loc[p].u] = "active"
       /\ now < claims[loc[p].c].expires_at
       => ret'[p].code = "VALID"]_vars

\* the periodic sweeper in call slot 2, started again and again by the
\* interval trigger, next to the calls of call slot 1 that finalize the claim
\* of student s1 or give it a new token: claim 1 of student s1 is pending or
\* approved, without a token or with a token issued at second 0, 1 or 2;
\* claim 2 of student s2 is approved, without a token or with the token of
\* second 1; the clock starts at that token's expiry and runs until every
\* stored token has expired
ExpireDocs ==
  {d \in SweepDocs : d.status = "approved" \/ (d.status = "pending" /\ d.qr_token = NoId)}
ExpireHorizon == qr_expiry(Max(SweepTokenTimes)) + 1

InitExpire ==
  \E d1 \in ExpireDocs, d2 \in {d \in ExpireDocs : d.status = "approved"} :
    /\ d2.expires_at \in {NoTime, qr_expiry(1)}
    /\ InitStoreWith(FreshItems,
                     [c \in ClaimIds |-> IF c = 1 THEN d1
                                         ELSE IF c = 2 THEN [d2 EXCEPT !.student_id = "s2"]
                                         ELSE NoClaim],
                     ActiveUsers, FALSE, qr_expiry(1))

NextExpire ==
  \/ SweepBegin(2)
  \/ SweepStep(2)
  \/ \E c \in ClaimsOfStudent("s1") : GenerateQrBegin(1, c)
  \/ GenerateQrStep(1)
  \/ \E c \in ClaimsOfStudent("s1") : FinalizeBegin(1, c, DEFAULT_DURATION_SEC)
  \/ FinalizeReadClaim(1)
  \/ FinalizeReadItem(1)
  \/ FinalizeWriteClaim(1)
  \/ FinalizeWriteItem(1)
  \/ FinalizeClearCache(1)
  \/ \E c \in ClaimsOfStudent("s1") : UpdateStatusBegin(1, c)
  \/ UpdateStatusStep(1)
  \/ Tick(1, ExpireHorizon)

\* IntervalTrigger(minutes=1): the job is started again whenever it is not
\* running, and a started run goes through its loop
SpecExpire ==
  /\ InitExpire /\ [][NextExpire]_vars
  /\ WF_vars(SweepBegin(2)) /\ WF_vars(SweepStep(2))

\* C37: under fair scheduling of the sweeper, every claim that is approved and
\* holds a token whose expiry has passed eventually has status expired, unless
\* it is finalized (completed) or given a new token; and no step of the
\* sweeper expires a claim that has no token.
TokenPassed(c) ==
  /\ claims[c].status = "approved"
  /\ claims[c].qr_token # NoId
  /\ claims[c].expires_at # NoTime /\ claims[c].expires_at < now

Actors == Admins \cup {"s1"}

InitAdmin ==
  \E d1, d2 \in SweepDocs, acc \in AccountStates :
    InitStoreWith(FreshItems,
                  [c \in ClaimIds |-> IF c = 1 THEN d1
                                      ELSE IF c = 2 THEN [d2 EXCEPT !.student_id = "s2"]
                                      ELSE NoClaim],
                  [ActiveUsers EXCEPT !["a1"] = acc], FALSE, qr_expiry(1))

NextAdmin ==
  \/ \E c \in ClaimIds, adm \in Actors : ApproveBegin(1, c, adm)
  \/ ApproveStep(1)
  \/ \E c \in ClaimIds, adm \in Actors : RejectBegin(1, c, adm)
  \/ RejectStep(1)

SpecAdmin == InitAdmin /\ [][NextAdmin]_vars

\* C38: admin approve and admin reject change the claim only when its status
\* is pending and the acting admin exists, has role admin and is active:
\* approve then sets status approved, approved_by to that admin and the
\* approval time, reject sets status rejected; when the claim is missing or
\* already processed, or the admin is not valid, the call fails and the claim
\* is left unchanged.
AdminPcs == {"ap_admin", "ap_read", "ap_write", "ap_query", "ap_cancel",
             "rj_admin", "rj_read", "rj_write"}

C38_AdminDecidesOnlyPending ==
  [][\A p \in Procs :
       pc[p] \in AdminPcs /\ (pc'[p] # pc[p] \/ loc'[p] # loc[p]) =>
         LET c == loc[p].c
             doc == claims[c]
             adm == loc[p].adm
             valid == /\ users[adm] # "missing" /\ role(adm) = "admin"
                      /\ users[adm] = "active"
             pending == doc.exists /\ doc.status = "pending"
         IN /\ claims'[c] # claims[c] =>
                 /\ valid /\ pending
                 /\ claims'[c] =
                      IF pc[p] = "ap_write"
                      THEN [doc EXCEPT !.status = "approved", !.approved_by = adm,
                                       !.approved_at = now]
                      ELSE [doc EXCEPT !.status = "rejected"]
            /\ pc[p] \in {"ap_admin", "rj_admin"} /\ ~valid =>
                 claims' = claims /\ pc'[p] = "done" /\ ~ret'[p].ok
            /\ pc[p] \in {"ap_read", "rj_read"} /\ ~pending =>
                 claims' = claims /\ pc'[p] = "done" /\ ~ret'[p].ok
            /\ pc'[p] = "done" /\ ret'[p].ok =>
                 /\ valid
                 /\ claims'[c].status = IF pc[p] = "rj_write" THEN "rejected"
                                        ELSE "approved"
                 /\ pc[p] # "rj_write" => claims'[c].approved_by = adm]_vars

\* admin a1 has approved the pending claim of s1 at the current time, after
\* the claim of s2 for the same item was rejected
C38_Witness ==
  /\ pc[1] = "done" /\ ret[1] = Ok("APPROVED", 1)
  /\ claims[1].status = "approved" /\ claims[1].approved_by = "a1"
  /\ claims[1].approved_at = now
  /\ claims[2].status = "rejected"

\* C39: issue-token never stores a token on a claim whose status is terminal
\* (completed, rejected, cancelled or expired): every step that writes a token
\* and expiry to a claim finds the claim in status pending or approved.
C39_TokenOnlyOnOpenClaim ==
  [][\A c \in ClaimIds :
       (claims[c].exists /\ claims'[c].exists
          /\ (claims'[c].qr_token # claims[c].qr_token
                \/ claims'[c].expires_at # claims[c].expires_at)) =>
         claims[c].status \in {"pending", "approved"}]_vars

\* C40: a dry-run validation acquires and releases no session lock and records
\* no rate-limit timestamp, and it reports the user_claim_eligibility layer as
\* passed only if the user has no pending claim for the item and is below the
\* cap of concurrent pending claims, as the non-dry-run validation requires.
C40_DryRunChecksEligibility ==
  [][\A p \in Procs :
       loc[p].dry /\ pc'[p] # pc[p] =>
         /\ claim_session_locks' = claim_session_locks
         /\ rate_limit_cache' = rate_limit_cache
         /\ (pc'[p] = "done" /\ Len(ret'[p].layers) >= 2) =>
              /\ EligibilityScan(ClaimsOf(loc[p].u, loc[p].i), now)
                   # "DUPLICATE_PENDING_CLAIM"
              /\ PendingCount(loc[p].u) < MAX_CONCURRENT_CLAIMS_PER_USER]_vars

====
